---- MODULE Spec2Model ----
(***************************************************************************)
(* Model of the chess overlay: the UI state machine and per-cycle pipeline *)
(* of main.rs, the UCI engine client of engine.rs, the alternative client  *)
(* of engine/stockfish.rs, and the board reconstruction of chess_logic.rs. *)
(*                                                                         *)
(* The specifications share the variables:                                 *)
(*   GtmSpec  - get_top_moves (engine.rs) reading a stream of UCI lines;   *)
(*   SfSpec   - the stockfish.rs client: new, wait_for, analyze;           *)
(*   Spec     - the application: menu, init_overlay, run_analysis,         *)
(*              the engine.rs session and the engine subprocesses.         *)
(*   FnSpec   - calls of the pure functions of yolo.rs, chess_logic.rs,    *)
(*              vision/board.rs and vision/inference.rs.                   *)
(* A specification keeps the variables of the others at their initial      *)
(* values.                                                                 *)
(***************************************************************************)
EXTENDS Integers, Sequences, FiniteSets, TLC

VARIABLES
    \* ---- GtmSpec: one call of get_top_moves (engine.rs)
    hist,        \* the lines read since "go", oldest first
    top_moves,   \* the HashMap<u32, String> of the call (shared with Spec)
    gres         \* the call's result: [done, ok, moves]

\* ------------------------------------------------------------------ bounds

\* lines one get_top_moves call reads at most in GtmSpec
MaxReads == 4

\* ------------------------------------------------------------- UCI lines
\* A line is the sequence of its whitespace-separated tokens (what
\* split_whitespace yields on the trimmed text); no token of the vocabulary
\* contains another keyword as a substring.

NoToken == ""

L_uciok == <<"uciok">>
L_readyok == <<"readyok">>
L_info1 == <<"info", "depth", "12", "multipv", "1", "pv", "e2e4", "e7e5">>
L_info1b == <<"info", "depth", "14", "multipv", "1", "pv", "g1f3">>
L_info2 == <<"info", "depth", "10", "multipv", "2", "pv", "d2d4">>
L_info3 == <<"info", "depth", "10", "multipv", "3", "pv", "e2e4">>
L_infoNoPv == <<"info", "depth", "1", "multipv", "1", "nodes", "20">>
L_infoBadIdx == <<"info", "depth", "1", "multipv", "x", "pv", "d2d4">>
L_infoPvOnly == <<"info", "depth", "9", "pv", "d2d4">>
L_infoString == <<"info", "string", "hello">>
L_best == <<"bestmove", "e2e4", "ponder", "e7e5">>
L_bestG == <<"bestmove", "g1f3">>
L_bestNone == <<"bestmove", "(none)">>
L_bestBare == <<"bestmove">>

\* str::parse::<u32> on the tokens of the vocabulary; -1 stands for Err
ParseU32(tok) ==
    CASE tok = "1" -> 1
      [] tok = "2" -> 2
      [] tok = "3" -> 3
      [] tok = "01" -> 1
      [] tok = "9" -> 9
      [] tok = "10" -> 10
      [] tok = "12" -> 12
      [] tok = "14" -> 14
      [] tok = "20" -> 20
      [] OTHER -> -1

\* trimmed.starts_with(word): the first token is the word
StartsWith(line, word) ==
    Len(line) >= 1 /\ line[1] = word

\* trimmed.contains(" word "): the word is a token with a token on each side
ContainsSpaced(line, word) ==
    \E i \in 2..(Len(line) - 1) : line[i] = word

\* get_token_value returns the part after the first part equal to `token`,
\* None when that part is the last one or there is none
get_token_value(line, token) ==
    LET hits == {i \in 1..Len(line) : line[i] = token}
    IN  IF hits = {} THEN NoToken
        ELSE LET i == CHOOSE k \in hits : \A j \in hits : k <= j
             IN  IF i < Len(line) THEN line[i + 1] ELSE NoToken

get_token_value_str(line, token) ==
    get_token_value(line, token)

\* ----------------------------------------------- get_top_moves (engine.rs)

EmptyMap == [k \in {} |-> NoToken]

\* an insert that keeps the value a key already has
MapInsertKeepFirst(m, k, v) ==
    IF k \in DOMAIN m THEN m
    ELSE [j \in (DOMAIN m) \cup {k} |-> IF j = k THEN v ELSE m[j]]

\* HashMap::insert
MapInsert(m, k, v) ==
    [j \in (DOMAIN m) \cup {k} |-> IF j = k THEN v ELSE m[j]]

\* the info branch of the read loop: the map after the line
InfoUpdate(top, line) ==
    IF /\ StartsWith(line, "info")
       /\ ContainsSpaced(line, "multipv")
       /\ ContainsSpaced(line, "pv")
    THEN LET multipv_idx == get_token_value(line, "multipv")
             pv_move == get_token_value_str(line, "pv")
         IN  IF /\ multipv_idx # NoToken
                /\ pv_move # NoToken
                /\ ParseU32(multipv_idx) >= 0
             THEN MapInsert(top, ParseU32(multipv_idx), pv_move)
             ELSE top
    ELSE top

RECURSIVE SortedKeys(_)
\* indices.sort(): the keys in ascending order
SortedKeys(S) ==
    IF S = {} THEN <<>>
    ELSE LET lo == CHOOSE k \in S : \A j \in S : k <= j
         IN  <<lo>> \o SortedKeys(S \ {lo})

\* the moves of the map in the order of their sorted indices
SortedMoves(top) ==
    LET indices == SortedKeys(DOMAIN top)
    IN  [i \in 1..Len(indices) |-> top[indices[i]]]

\* the bestmove branch: what get_top_moves returns on a bestmove line
BestmoveResult(top, line) ==
    IF top = EmptyMap /\ Len(line) >= 2
    THEN <<line[2]>>
    ELSE SortedMoves(top)

\* ------------------------------------------------------------- GtmSpec

GtmLines ==
    {L_info1, L_info1b, L_info2, L_info3, L_infoNoPv, L_infoBadIdx,
     L_infoPvOnly, L_infoString, L_best, L_bestG, L_bestBare, L_readyok}

NoResult == [done |-> FALSE, ok |-> FALSE, moves |-> <<>>]

GtmInit ==
    /\ hist = <<>>
    /\ top_moves = EmptyMap
    /\ gres = NoResult

\* one pass of the read loop on a line the engine wrote
GtmReadLine(line) ==
    /\ ~gres.done
    /\ Len(hist) < MaxReads
    /\ hist' = Append(hist, line)
    /\ LET top == InfoUpdate(top_moves, line)
       IN  /\ top_moves' = top
           /\ gres' = IF StartsWith(line, "bestmove")
                      THEN [done |-> TRUE, ok |-> TRUE,
                            moves |-> BestmoveResult(top, line)]
                      ELSE gres

\* read_line returns 0 bytes: the stream is closed
GtmReadEof ==
    /\ ~gres.done
    /\ gres' = [done |-> TRUE, ok |-> FALSE, moves |-> <<>>]
    /\ UNCHANGED <<hist, top_moves>>

\* C8: when get_top_moves returns on a bestmove line and some info line read
\* before it carried both a numeric multipv index and a pv move, the result
\* holds exactly one move per reported index, in ascending index order, each
\* the first pv token of the last info line that reported the index.
CarriesIdxPv(line) ==
    /\ Len(line) >= 1 /\ line[1] = "info"
    /\ \E i \in 2..(Len(line) - 1) :
          line[i] = "multipv" /\ ParseU32(line[i + 1]) >= 0
    /\ \E j \in 2..(Len(line) - 1) : line[j] = "pv"

LineIdx(line) ==
    ParseU32(line[(CHOOSE i \in 2..(Len(line) - 1) : line[i] = "multipv") + 1])

LinePv(line) ==
    line[(CHOOSE j \in 2..(Len(line) - 1) : line[j] = "pv") + 1]

ReportedIdx(h) ==
    {LineIdx(h[i]) : i \in {k \in 1..Len(h) : CarriesIdxPv(h[k])}}

LastPvFor(h, n) ==
    LET at == {k \in 1..Len(h) : CarriesIdxPv(h[k]) /\ LineIdx(h[k]) = n}
        last == CHOOSE k \in at : \A j \in at : j <= k
    IN  LinePv(h[last])

C8_TopMovesByPvIndex ==
    (/\ gres.done /\ gres.ok
     /\ ReportedIdx(hist) # {})
    => /\ Len(gres.moves) = Cardinality(ReportedIdx(hist))
       /\ \A n \in ReportedIdx(hist) :
             gres.moves[Cardinality({m \in ReportedIdx(hist) : m <= n})]
                 = LastPvFor(hist, n)

C8_Witness ==
    /\ gres.done /\ gres.ok
    /\ hist = <<L_info2, L_info1, L_best>>
    /\ gres.moves = <<"e2e4", "d2d4">>

\* C9, the get_top_moves half: a bestmove line with a move token and no
\* parsed PV line gives the one-element list holding that token.
GtmFallbackLemma ==
    (/\ gres.done /\ gres.ok
     /\ ReportedIdx(hist) = {}
     /\ Len(hist[Len(hist)]) >= 2)
    => gres.moves = <<hist[Len(hist)][2]>>

\* ======================================================== chess_logic.rs
\* A Detection is [x, y, w, h, class_id, confidence] with integer values
\* (confidence in percent).  Arithmetic is exact: a Rect holds x2 = 2 * x and
\* y2 = 2 * y (bounds() halves the sizes), and move_to_rect gives its points
\* in sixteenths (a cell centre is (col + 1/2) * w / 8 from the edge).

WhiteBottom == "WhiteBottom"
BlackBottom == "BlackBottom"

\* Detection::bounds(), doubled: (x1, y1, x2, y2) * 2
Bounds2(d) ==
    [x1 |-> 2 * d.x - d.w, y1 |-> 2 * d.y - d.h,
     x2 |-> 2 * d.x + d.w, y2 |-> 2 * d.y + d.h]

\* class_id_to_fen
class_id_to_fen(id) ==
    CASE id = 1 -> "K" [] id = 2 -> "Q" [] id = 3 -> "R" [] id = 4 -> "B"
      [] id = 5 -> "N" [] id = 6 -> "P" [] id = 7 -> "k" [] id = 8 -> "q"
      [] id = 9 -> "r" [] id = 10 -> "b" [] id = 11 -> "n" [] id = 12 -> "p"
      [] OTHER -> "?"

\* the indices of the board candidates: class 0, w > 0.2 and h > 0.2
BoardCandidates(dets) ==
    {i \in 1..Len(dets) :
        dets[i].class_id = 0 /\ 5 * dets[i].w > 1 /\ 5 * dets[i].h > 1}

\* Iterator::max_by on the confidence: the last of the greatest
SelectBoard(dets) ==
    LET cand == BoardCandidates(dets)
        best == {i \in cand : \A j \in cand : dets[j].confidence <= dets[i].confidence}
    IN  CHOOSE i \in best : \A j \in best : j <= i

RECURSIVE RawPiecesNoBounds(_, _, _, _)
\* the loop without the test of the centre against the board's bounds; the
\* cast to usize takes a negative quotient to 0
RawPiecesNoBounds(dets, board, orientation, k) ==
    IF k > Len(dets) THEN <<>>
    ELSE LET det == dets[k]
             b == Bounds2(board)
             q_col == ((2 * det.x - b.x1) * 4) \div board.w
             q_row == ((2 * det.y - b.y1) * 4) \div board.h
             v_col == IF q_col < 0 THEN 0 ELSE q_col
             v_row == IF q_row < 0 THEN 0 ELSE q_row
             rest == RawPiecesNoBounds(dets, board, orientation, k + 1)
         IN  IF det.class_id = 0 THEN rest
             ELSE IF v_col < 8 /\ v_row < 8
                  THEN <<[row |-> IF orientation = WhiteBottom THEN v_row ELSE 7 - v_row,
                          col |-> IF orientation = WhiteBottom THEN v_col ELSE 7 - v_col,
                          class_id |-> det.class_id]>> \o rest
                  ELSE rest

RECURSIVE RawPieces(_, _, _, _)
\* the loop over the detections: the raw_pieces that detections k..Len(dets)
\* push, in their order
RawPieces(dets, board, orientation, k) ==
    IF k > Len(dets) THEN <<>>
    ELSE LET det == dets[k]
             b == Bounds2(board)
             cx2 == 2 * det.x
             cy2 == 2 * det.y
             v_col == ((cx2 - b.x1) * 4) \div board.w
             v_row == ((cy2 - b.y1) * 4) \div board.h
             rest == RawPieces(dets, board, orientation, k + 1)
         IN  IF det.class_id = 0 THEN rest
             ELSE IF cx2 < b.x1 \/ cx2 > b.x2 \/ cy2 < b.y1 \/ cy2 > b.y2 THEN rest
             ELSE IF v_col < 8 /\ v_row < 8
                  THEN <<[row |-> IF orientation = WhiteBottom THEN v_row ELSE 7 - v_row,
                          col |-> IF orientation = WhiteBottom THEN v_col ELSE 7 - v_col,
                          class_id |-> det.class_id]>> \o rest
                  ELSE rest

\* the duplicate-king heuristic condition
DuplicateKings(raw) ==
    /\ Cardinality({i \in 1..Len(raw) : raw[i].class_id = 1}) >= 2
    /\ {i \in 1..Len(raw) : raw[i].class_id = 7} = {}

\* the heuristic turning the first white king of the greatest row
FixKingsGreatestRow(raw) ==
    IF DuplicateKings(raw)
    THEN LET white_kings == {i \in 1..Len(raw) : raw[i].class_id = 1}
             highest == {i \in white_kings :
                            \A j \in white_kings : raw[i].row >= raw[j].row}
             target_idx == CHOOSE i \in highest : \A j \in highest : i <= j
         IN  [raw EXCEPT ![target_idx].class_id = 7]
    ELSE raw

\* raw_pieces after the heuristic: the first white king of the smallest row
\* becomes a black king
FixKings(raw) ==
    IF DuplicateKings(raw)
    THEN LET white_kings == {i \in 1..Len(raw) : raw[i].class_id = 1}
             lowest == {i \in white_kings :
                           \A j \in white_kings : raw[i].row <= raw[j].row}
             target_idx == CHOOSE i \in lowest : \A j \in lowest : i <= j
         IN  [raw EXCEPT ![target_idx].class_id = 7]
    ELSE raw

EmptyGrid == [r \in 0..7 |-> [c \in 0..7 |-> ""]]

RECURSIVE FillGridFirstWins(_, _, _)
\* a loop that leaves a cell to the first piece written to it
FillGridFirstWins(grid, raw, k) ==
    IF k > Len(raw) THEN grid
    ELSE FillGridFirstWins(
             IF grid[raw[k].row][raw[k].col] = ""
             THEN [grid EXCEPT ![raw[k].row][raw[k].col] = class_id_to_fen(raw[k].class_id)]
             ELSE grid,
             raw, k + 1)

RECURSIVE FillGrid(_, _, _)
\* `for p in raw_pieces { grid[p.row][p.col] = Some(piece_char) }` from piece k on
FillGrid(grid, raw, k) ==
    IF k > Len(raw) THEN grid
    ELSE FillGrid([grid EXCEPT ![raw[k].row][raw[k].col] = class_id_to_fen(raw[k].class_id)],
                  raw, k + 1)

RECURSIVE RowCharsNoTail(_, _, _)
\* a row without the count of the empty cells that end it
RowCharsNoTail(gridrow, col, empty_count) ==
    IF col > 7 THEN <<>>
    ELSE IF gridrow[col] # ""
         THEN (IF empty_count > 0 THEN <<ToString(empty_count)>> ELSE <<>>)
              \o <<gridrow[col]>> \o RowCharsNoTail(gridrow, col + 1, 0)
         ELSE RowCharsNoTail(gridrow, col + 1, empty_count + 1)

RECURSIVE RowChars(_, _, _)
\* one row of the placement, from column col on with empty_count pending
RowChars(gridrow, col, empty_count) ==
    IF col > 7
    THEN IF empty_count > 0 THEN <<ToString(empty_count)>> ELSE <<>>
    ELSE IF gridrow[col] # ""
         THEN (IF empty_count > 0 THEN <<ToString(empty_count)>> ELSE <<>>)
              \o <<gridrow[col]>> \o RowChars(gridrow, col + 1, 0)
         ELSE RowChars(gridrow, col + 1, empty_count + 1)

RECURSIVE JoinRows(_, _)
\* fen_parts.join("/") from row r on: the characters of the placement
JoinRows(grid, r) ==
    IF r = 7 THEN RowChars(grid[r], 0, 0)
    ELSE RowChars(grid[r], 0, 0) \o <<"/">> \o JoinRows(grid, r + 1)

\* the grid detections_to_fen builds when a board was found
GridOf(dets, orientation) ==
    FillGrid(EmptyGrid,
             FixKings(RawPieces(dets, dets[SelectBoard(dets)], orientation, 1)), 1)

\* detections_to_fen: (placement, Rect)
detections_to_fen(dets, orientation) ==
    IF BoardCandidates(dets) = {}
    THEN [placement |-> JoinRows(EmptyGrid, 0),
          rect |-> [x2 |-> 0, y2 |-> 0, w |-> 0, h |-> 0]]
    ELSE LET board == dets[SelectBoard(dets)]
         IN  [placement |-> JoinRows(GridOf(dets, orientation), 0),
              rect |-> [x2 |-> Bounds2(board).x1, y2 |-> Bounds2(board).y1,
                        w |-> board.w, h |-> board.h]]

RECURSIVE SumY(_, _, _)
SumY(dets, class, k) ==
    IF k > Len(dets) THEN 0
    ELSE (IF dets[k].class_id = class THEN dets[k].y ELSE 0) + SumY(dets, class, k + 1)

\* detect_orientation taking equal averages for WhiteBottom
detect_orientation_ties_white(dets, board_rect) ==
    LET white_count == Cardinality({i \in 1..Len(dets) : dets[i].class_id = 6})
        black_count == Cardinality({i \in 1..Len(dets) : dets[i].class_id = 12})
    IN  IF white_count = 0 \/ black_count = 0 THEN WhiteBottom
        ELSE IF SumY(dets, 6, 1) * black_count >= SumY(dets, 12, 1) * white_count
             THEN WhiteBottom
             ELSE BlackBottom

\* detect_orientation; the averages are compared by cross-multiplication
detect_orientation(dets, board_rect) ==
    LET white_count == Cardinality({i \in 1..Len(dets) : dets[i].class_id = 6})
        black_count == Cardinality({i \in 1..Len(dets) : dets[i].class_id = 12})
        white_y_sum == SumY(dets, 6, 1)
        black_y_sum == SumY(dets, 12, 1)
    IN  IF white_count = 0 \/ black_count = 0 THEN WhiteBottom
        ELSE IF white_y_sum * black_count > black_y_sum * white_count
             THEN WhiteBottom
             ELSE BlackBottom

\* move_str.chars(): the characters of the move tokens of the vocabulary
Chars(tok) ==
    CASE tok = "e2e4" -> <<"e", "2", "e", "4">>
      [] tok = "d2d4" -> <<"d", "2", "d", "4">>
      [] tok = "g1f3" -> <<"g", "1", "f", "3">>
      [] tok = "e7e5" -> <<"e", "7", "e", "5">>
      [] tok = "a7a8q" -> <<"a", "7", "a", "8", "q">>
      [] tok = "(none)" -> <<"(", "n", "o", "n", "e", ")">>
      [] tok = "e2" -> <<"e", "2">>
      [] tok = "i1a1" -> <<"i", "1", "a", "1">>
      [] tok = "a0a1" -> <<"a", "0", "a", "1">>
      [] tok = "a9a1" -> <<"a", "9", "a", "1">>
      [] OTHER -> <<>>

\* `c as u8` for the characters above
Ord(c) ==
    CASE c = "a" -> 97 [] c = "b" -> 98 [] c = "c" -> 99 [] c = "d" -> 100
      [] c = "e" -> 101 [] c = "f" -> 102 [] c = "g" -> 103 [] c = "h" -> 104
      [] c = "i" -> 105 [] c = "n" -> 110 [] c = "o" -> 111 [] c = "q" -> 113
      [] c = "(" -> 40 [] c = ")" -> 41
      [] c = "0" -> 48 [] c = "1" -> 49 [] c = "2" -> 50 [] c = "3" -> 51
      [] c = "4" -> 52 [] c = "5" -> 53 [] c = "6" -> 54 [] c = "7" -> 55
      [] c = "8" -> 56 [] c = "9" -> 57
      [] OTHER -> 0

\* to_digit counting from the character 1
ToDigitFromOne(c) ==
    IF Ord(c) >= 48 /\ Ord(c) <= 57 THEN Ord(c) - 49 ELSE -1

\* char::to_digit(10); -1 stands for None
ToDigit(c) ==
    IF Ord(c) >= 48 /\ Ord(c) <= 57 THEN Ord(c) - 48 ELSE -1

\* move_to_rect: [kind, x1, y1, x2, y2], the points in sixteenths.  kind is
\* "some", "none", or "overflow" where `8 - digit` underflows u32 (rank 9): a
\* panic in a build with overflow checks, None in one without.
NoPoint(kind) == [kind |-> kind, x1 |-> 0, y1 |-> 0, x2 |-> 0, y2 |-> 0]

\* move_to_rect without the BlackBottom flip
move_to_rect_chars_unflipped(chars, board_rect, orientation) ==
    IF Len(chars) < 4 THEN NoPoint("none")
        ELSE IF Ord(chars[1]) < 97 \/ Ord(chars[3]) < 97 THEN NoPoint("none")
        ELSE IF ToDigit(chars[2]) < 0 THEN NoPoint("none")
        ELSE IF ToDigit(chars[2]) > 8 THEN NoPoint("overflow")
        ELSE IF ToDigit(chars[4]) < 0 THEN NoPoint("none")
        ELSE IF ToDigit(chars[4]) > 8 THEN NoPoint("overflow")
        ELSE LET flip == FALSE
                 c1 == Ord(chars[1]) - 97
                 c2 == Ord(chars[3]) - 97
                 r1 == 8 - ToDigit(chars[2])
                 r2 == 8 - ToDigit(chars[4])
                 start_col == IF flip THEN 7 - c1 ELSE c1
                 end_col == IF flip THEN 7 - c2 ELSE c2
                 start_row == IF flip THEN 7 - r1 ELSE r1
                 end_row == IF flip THEN 7 - r2 ELSE r2
             IN  IF start_col < 0 \/ start_col > 7 \/ start_row < 0 \/ start_row > 7
                 THEN NoPoint("none")
                 ELSE IF end_col < 0 \/ end_col > 7 \/ end_row < 0 \/ end_row > 7
                 THEN NoPoint("none")
                 ELSE [kind |-> "some",
                       x1 |-> 8 * board_rect.x2 + (2 * start_col + 1) * board_rect.w,
                       y1 |-> 8 * board_rect.y2 + (2 * start_row + 1) * board_rect.h,
                       x2 |-> 8 * board_rect.x2 + (2 * end_col + 1) * board_rect.w,
                       y2 |-> 8 * board_rect.y2 + (2 * end_row + 1) * board_rect.h]

\* move_to_rect on the characters of the move
move_to_rect_chars(chars, board_rect, orientation) ==
    IF Len(chars) < 4 THEN NoPoint("none")
        ELSE IF Ord(chars[1]) < 97 \/ Ord(chars[3]) < 97 THEN NoPoint("none")
        ELSE IF ToDigit(chars[2]) < 0 THEN NoPoint("none")
        ELSE IF ToDigit(chars[2]) > 8 THEN NoPoint("overflow")
        ELSE IF ToDigit(chars[4]) < 0 THEN NoPoint("none")
        ELSE IF ToDigit(chars[4]) > 8 THEN NoPoint("overflow")
        ELSE LET flip == orientation = BlackBottom
                 c1 == Ord(chars[1]) - 97
                 c2 == Ord(chars[3]) - 97
                 r1 == 8 - ToDigit(chars[2])
                 r2 == 8 - ToDigit(chars[4])
                 start_col == IF flip THEN 7 - c1 ELSE c1
                 end_col == IF flip THEN 7 - c2 ELSE c2
                 start_row == IF flip THEN 7 - r1 ELSE r1
                 end_row == IF flip THEN 7 - r2 ELSE r2
             IN  IF start_col < 0 \/ start_col > 7 \/ start_row < 0 \/ start_row > 7
                 THEN NoPoint("none")
                 ELSE IF end_col < 0 \/ end_col > 7 \/ end_row < 0 \/ end_row > 7
                 THEN NoPoint("none")
                 ELSE [kind |-> "some",
                       x1 |-> 8 * board_rect.x2 + (2 * start_col + 1) * board_rect.w,
                       y1 |-> 8 * board_rect.y2 + (2 * start_row + 1) * board_rect.h,
                       x2 |-> 8 * board_rect.x2 + (2 * end_col + 1) * board_rect.w,
                       y2 |-> 8 * board_rect.y2 + (2 * end_row + 1) * board_rect.h]

move_to_rect(move_str, board_rect, orientation) ==
    move_to_rect_chars(Chars(move_str), board_rect, orientation)

\* ================================================== main.rs and engine.rs
\* Spec: the application.  update() runs on the UI thread; init_overlay and
\* run_analysis run inside it, step by step where they write to or read from
\* the engine process.

VARIABLES
    ui,           \* AppState: Menu, Selecting, Overlay
    region,       \* config.region: [some, x, y, width, height]
    multipv,      \* config.stockfish.multipv
    session,      \* self.session.is_some(): the detector session
    engine,       \* self.engine: 0 for None, else the process its handles refer to
    eng_local,    \* Stockfish::new: the process of the session being built, else 0
    procs,        \* the engine processes: unborn, run, hung, exited, killed
    last_arrows,  \* self.last_arrows: [some, v]
    pc,           \* the step of the running update(), "frame" between calls
    eop,          \* the handshake's caller: "new" or "restart"
    side,         \* the query of run_analysis: "white" or "black"
    cyc,          \* the locals of the running run_analysis
    log,          \* the engine commands and awaited lines of the running update()
    faulted,      \* get_top_moves returned an error and restart was not called since
    mpv,          \* the MultiPV value last written to the newest process, 0 for none
    painted       \* the arrows the last overlay frame painted

appvars ==
    <<ui, region, multipv, session, engine, eng_local, procs, last_arrows, pc,
      eop, side, cyc, log, faulted, mpv, painted>>

\* engine processes the application spawns at most
MaxProcs == 2
\* the greatest MultiPV setting of the menu's slider
MaxMultiPv == 2

Det(x, y, w, h, c, conf) ==
    [x |-> x, y |-> y, w |-> w, h |-> h, class_id |-> c, confidence |-> conf]

BoardDet == Det(320, 320, 640, 640, 0, 90)

\* the detections a cycle may get from the detector
DetsNone == <<>>
DetsKings == <<BoardDet, Det(360, 600, 60, 60, 1, 80), Det(360, 40, 60, 60, 7, 80)>>
DetsFlipped ==
    <<BoardDet, Det(280, 40, 60, 60, 1, 80), Det(280, 600, 60, 60, 7, 80),
      Det(40, 120, 50, 50, 6, 70), Det(40, 520, 50, 50, 12, 70)>>
DetsNoBlackKing == <<BoardDet, Det(360, 600, 60, 60, 1, 80)>>

DetScenarios == {DetsNone, DetsKings, DetsFlipped, DetsNoBlackKing}

\* the lines an engine process may write in Spec
AppLines == {L_uciok, L_readyok, L_info1, L_bestG, L_bestNone}

NoRegion == [some |-> FALSE, x |-> 0, y |-> 0, width |-> 0, height |-> 0]
ARegion == [some |-> TRUE, x |-> 100, y |-> 50, width |-> 800, height |-> 600]

\* the sizes of the captured monitor image
ImgSizes == {[w |-> 1920, h |-> 1080], [w |-> 0, h |-> 0]}

Min(a, b) == IF a < b THEN a ELSE b

SatSub(a, b) == IF a > b THEN a - b ELSE 0

\* run_analysis: r_w and r_h, the clamped crop
CropW(r, img) == Min(r.width, SatSub(img.w, Min(r.x, SatSub(img.w, 1))))
CropH(r, img) == Min(r.height, SatSub(img.h, Min(r.y, SatSub(img.h, 1))))

NoArrows == [some |-> FALSE, v |-> <<>>]

Rect0 == [x2 |-> 0, y2 |-> 0, w |-> 0, h |-> 0]

\* skip: the early return run_analysis took in this overlay frame, "" when the
\* frame ran no analysis or the analysis went on to the detections
NoCycle ==
    [active |-> FALSE, placement |-> <<>>, rect |-> Rect0,
     orientation |-> WhiteBottom, sx |-> 0, sy |-> 0, arrows0 |-> <<>>,
     failed |-> FALSE, skip |-> ""]

AppInit ==
    /\ ui = "Menu"
    /\ region \in {NoRegion, ARegion}
    /\ multipv \in 1..MaxMultiPv
    /\ session = FALSE
    /\ engine = 0
    /\ eng_local = 0
    /\ procs = [p \in 1..MaxProcs |-> "unborn"]
    /\ last_arrows = NoArrows
    /\ pc = "frame"
    /\ eop = ""
    /\ side = ""
    /\ cyc = NoCycle
    /\ log = <<>>
    /\ faulted = FALSE
    /\ mpv = 0
    /\ painted = <<>>

Spawned == {p \in 1..MaxProcs : procs[p] # "unborn"}

NextPid == Cardinality(Spawned) + 1

\* the process the running engine operation's handles refer to
Cur == IF eop = "new" THEN eng_local ELSE engine

\* a write to the process's stdin succeeds
WriteOk(p) == procs[p] \in {"run", "hung"}

\* the arrows shown: None draws nothing
Shown(la) == IF la.some THEN la.v ELSE <<>>

\* exactly one white and one black king in the placement
CountChar(q, c) == Cardinality({i \in 1..Len(q) : q[i] = c})

KingsOk(placement) ==
    CountChar(placement, "K") = 1 /\ CountChar(placement, "k") = 1

\* ---------------------------------------------------------------- the menu

\* the MultiPV slider
MenuSetMultiPv(n) ==
    /\ pc = "frame" /\ ui = "Menu"
    /\ n # multipv
    /\ multipv' = n
    /\ UNCHANGED <<ui, region, session, engine, eng_local, procs, last_arrows, pc,
                   eop, side, cyc, log, faulted, top_moves>>
    /\ UNCHANGED mpv
    /\ UNCHANGED painted

\* "Select Region"
MenuSelectRegion ==
    /\ pc = "frame" /\ ui = "Menu"
    /\ ui' = "Selecting"
    /\ UNCHANGED <<region, multipv, session, engine, eng_local, procs, last_arrows,
                   pc, eop, side, cyc, log, faulted, top_moves>>
    /\ UNCHANGED mpv
    /\ UNCHANGED painted

\* the drag ends on a rectangle wider and higher than 10
SelectingDone ==
    /\ pc = "frame" /\ ui = "Selecting"
    /\ region' = ARegion
    /\ ui' = "Menu"
    /\ UNCHANGED <<multipv, session, engine, eng_local, procs, last_arrows, pc,
                   eop, side, cyc, log, faulted, top_moves>>
    /\ UNCHANGED mpv
    /\ UNCHANGED painted

\* "Start Overlay" without the test of the region
MenuStartOverlayAnyRegion ==
    /\ pc = "frame" /\ ui = "Menu"
    /\ pc' = "io_session"
    /\ log' = <<>>
    /\ UNCHANGED <<ui, region, multipv, session, engine, eng_local, procs,
                   last_arrows, eop, side, cyc, faulted, top_moves>>
    /\ UNCHANGED mpv
    /\ UNCHANGED painted

\* "Start Overlay" with a region: init_overlay begins
MenuStartOverlay ==
    /\ pc = "frame" /\ ui = "Menu"
    /\ region.some
    /\ pc' = "io_session"
    /\ log' = <<>>
    /\ UNCHANGED <<ui, region, multipv, session, engine, eng_local, procs,
                   last_arrows, eop, side, cyc, faulted, top_moves>>
    /\ UNCHANGED mpv
    /\ UNCHANGED painted

\* init_overlay returns Err: "Failed to init overlay", the state stays Menu
InitFails ==
    /\ pc' = "frame"
    /\ eng_local' = 0
    /\ eop' = ""
    /\ log' = <<>>
    /\ UNCHANGED <<ui, engine>>

\* init_overlay returns Ok: the state becomes Overlay
InitSucceeds ==
    /\ pc' = "frame"
    /\ eng_local' = 0
    /\ eop' = ""
    /\ log' = <<>>
    /\ ui' = "Overlay"

\* init_overlay: the detector session exists or is built
IoSessionOk ==
    /\ pc = "io_session"
    /\ session' = TRUE
    /\ pc' = "io_engine"
    /\ UNCHANGED <<ui, region, multipv, engine, eng_local, procs, last_arrows, eop,
                   side, cyc, log, faulted, top_moves>>
    /\ UNCHANGED mpv
    /\ UNCHANGED painted

\* init_overlay: Session::builder()...commit_from_file(model_path)? fails
IoSessionFail ==
    /\ pc = "io_session"
    /\ ~session
    /\ InitFails
    /\ UNCHANGED <<region, multipv, session, procs, last_arrows, side, cyc, faulted,
                   top_moves>>
    /\ UNCHANGED mpv
    /\ UNCHANGED painted

\* init_overlay, self.engine is None: Stockfish::new spawns the process
IoEngineNewSpawn ==
    /\ pc = "io_engine"
    /\ engine = 0
    /\ NextPid <= MaxProcs
    /\ procs' = [procs EXCEPT ![NextPid] = "run"]
    /\ eng_local' = NextPid
    /\ eop' = "new"
    /\ pc' = "hs_uci"
    /\ UNCHANGED <<ui, region, multipv, session, engine, last_arrows, side, cyc,
                   log, faulted, top_moves>>
    /\ mpv' = 0
    /\ UNCHANGED painted

\* init_overlay, self.engine is None: Command::spawn()? fails
IoEngineNewSpawnFail ==
    /\ pc = "io_engine"
    /\ engine = 0
    /\ InitFails
    /\ UNCHANGED <<region, multipv, session, procs, last_arrows, side, cyc, faulted,
                   top_moves>>
    /\ UNCHANGED mpv
    /\ UNCHANGED painted

\* init_overlay, the engine exists: engine.set_option("MultiPV", ..)?
IoEngineUpdate ==
    /\ pc = "io_engine"
    /\ engine # 0
    /\ IF WriteOk(engine) THEN InitSucceeds ELSE InitFails
    /\ UNCHANGED <<region, multipv, session, engine, procs, last_arrows, side, cyc,
                   faulted, top_moves>>
    /\ mpv' = IF WriteOk(engine) THEN multipv ELSE mpv
    /\ UNCHANGED painted

\* init_overlay, after Stockfish::new: engine.set_option("MultiPV", ..)?;
\* self.engine = Some(engine)
IoSetOpt ==
    /\ pc = "io_setopt"
    /\ IF WriteOk(eng_local)
       THEN /\ engine' = eng_local
            /\ InitSucceeds
       ELSE InitFails
    /\ UNCHANGED <<region, multipv, session, procs, last_arrows, side, cyc, faulted,
                   top_moves>>
    /\ mpv' = IF WriteOk(eng_local) THEN multipv ELSE mpv
    /\ UNCHANGED painted

\* ------------------------------- the handshake of new and restart (engine.rs)

\* new or restart returns Err
HsFail ==
    IF eop = "new"
    THEN /\ InitFails
         /\ UNCHANGED <<faulted>>
    ELSE /\ pc' = "ra_setopt"
         /\ eop' = ""
         /\ log' = Append(log, "restart:fail")
         /\ UNCHANGED <<ui, engine, eng_local, faulted>>

\* send_command("uci")?
HsSendUci ==
    /\ pc = "hs_uci"
    /\ IF WriteOk(Cur)
       THEN /\ log' = Append(log, "send:uci")
            /\ pc' = "hs_wait_uciok"
            /\ UNCHANGED <<ui, engine, eng_local, eop, faulted>>
       ELSE HsFail
    /\ UNCHANGED <<region, multipv, session, procs, last_arrows, side, cyc, top_moves>>
    /\ UNCHANGED mpv
    /\ UNCHANGED painted

\* the first read loop: read_line gives a line; `if line.trim() == "uciok" { break }`
HsReadUciok(line) ==
    /\ pc = "hs_wait_uciok"
    /\ procs[Cur] = "run"
    /\ IF line = L_uciok
       THEN /\ log' = Append(log, "read:uciok")
            /\ pc' = "hs_isready"
       ELSE UNCHANGED <<log, pc>>
    /\ UNCHANGED <<ui, region, multipv, session, engine, eng_local, procs,
                   last_arrows, eop, side, cyc, faulted, top_moves>>
    /\ UNCHANGED mpv
    /\ UNCHANGED painted

\* send_command("isready")?
HsSendIsready ==
    /\ pc = "hs_isready"
    /\ IF WriteOk(Cur)
       THEN /\ log' = Append(log, "send:isready")
            /\ pc' = "hs_wait_readyok"
            /\ UNCHANGED <<ui, engine, eng_local, eop, faulted>>
       ELSE HsFail
    /\ UNCHANGED <<region, multipv, session, procs, last_arrows, side, cyc, top_moves>>
    /\ UNCHANGED mpv
    /\ UNCHANGED painted

\* the second read loop; on "readyok" new returns Ok(engine), restart Ok(())
HsReadReadyok(line) ==
    /\ pc = "hs_wait_readyok"
    /\ procs[Cur] = "run"
    /\ IF line = L_readyok
       THEN /\ log' = Append(Append(log, "read:readyok"),
                             IF eop = "new" THEN "new:ok" ELSE "restart:ok")
            /\ pc' = IF eop = "new" THEN "io_setopt" ELSE "ra_setopt"
            /\ eop' = IF eop = "new" THEN eop ELSE ""
       ELSE UNCHANGED <<log, pc, eop>>
    /\ UNCHANGED <<ui, region, multipv, session, engine, eng_local, procs,
                   last_arrows, side, cyc, faulted, top_moves>>
    /\ UNCHANGED mpv
    /\ UNCHANGED painted

\* either read loop: read_line returns Ok(0)
HsReadEof ==
    /\ pc \in {"hs_wait_uciok", "hs_wait_readyok"}
    /\ procs[Cur] \in {"exited", "killed"}
    /\ HsFail
    /\ UNCHANGED <<region, multipv, session, procs, last_arrows, side, cyc, top_moves>>
    /\ UNCHANGED mpv
    /\ UNCHANGED painted

\* either read loop: read_line(&mut line)? fails (an I/O error, bytes that
\* are not UTF-8); the process keeps running
HsReadErr ==
    /\ pc \in {"hs_wait_uciok", "hs_wait_readyok"}
    /\ procs[Cur] = "run"
    /\ HsFail
    /\ UNCHANGED <<region, multipv, session, procs, last_arrows, side, cyc, top_moves>>
    /\ UNCHANGED mpv
    /\ UNCHANGED painted

\* ------------------------------------------------------------ run_analysis

\* Insert pressed in the overlay
OverlayInsert ==
    /\ pc = "frame" /\ ui = "Overlay"
    /\ ui' = "Menu"
    /\ cyc' = NoCycle
    /\ UNCHANGED <<region, multipv, session, engine, eng_local, procs, last_arrows,
                   pc, eop, side, log, faulted, top_moves>>
    /\ UNCHANGED mpv
    /\ UNCHANGED painted

\* an overlay frame less than 500 ms after the last analysis: update() paints
\* last_arrows and does nothing else
OverlayPaint ==
    /\ pc = "frame" /\ ui = "Overlay"
    /\ painted' = Shown(last_arrows)
    /\ cyc' = NoCycle
    /\ UNCHANGED <<ui, region, multipv, session, engine, eng_local, procs,
                   last_arrows, pc, eop, side, log, faulted, top_moves, mpv>>

\* the early returns of run_analysis, in the order of the code
SkipCauses ==
    {"no_region", "no_monitor", "capture_failed", "empty_crop",
     "inference_error", "no_output0", "extract_failed"}

\* the early return `cause` is one run_analysis can take: the region is
\* tested first, then the monitor and the capture, then the crop of the
\* screenshot, and the session runs on a crop that is not empty
SkipTaken(cause) ==
    CASE cause = "no_region" -> ~region.some
      [] cause \in {"no_monitor", "capture_failed"} -> region.some
      [] cause = "empty_crop" ->
             /\ region.some
             /\ \E img \in ImgSizes : CropW(region, img) = 0 \/ CropH(region, img) = 0
      [] OTHER ->
             /\ region.some /\ session
             /\ \E img \in ImgSizes : CropW(region, img) > 0 /\ CropH(region, img) > 0

\* run_analysis with the early returns that also empty the stored arrows
RaSkipClearsArrows(cause) ==
    /\ pc = "frame" /\ ui = "Overlay"
    /\ SkipTaken(cause)
    /\ cyc' = [NoCycle EXCEPT !.skip = cause]
    /\ last_arrows' = [some |-> TRUE, v |-> <<>>]
    /\ UNCHANGED <<ui, region, multipv, session, engine, eng_local, procs,
                   pc, eop, side, log, faulted, top_moves>>
    /\ UNCHANGED mpv
    /\ painted' = <<>>

\* run_analysis returns before the detections exist: no region, no monitor,
\* the capture or the inference failed, no "output0", an empty crop; update()
\* then paints
RaSkip(cause) ==
    /\ pc = "frame" /\ ui = "Overlay"
    /\ SkipTaken(cause)
    /\ cyc' = [NoCycle EXCEPT !.skip = cause]
    /\ UNCHANGED <<ui, region, multipv, session, engine, eng_local, procs,
                   last_arrows, pc, eop, side, log, faulted, top_moves>>
    /\ UNCHANGED mpv
    /\ painted' = Shown(last_arrows)

RECURSIVE PushArrowsWhiteBottom(_, _, _, _)
\* the arrows of the moves taken for WhiteBottom whatever the cycle's
\* orientation
PushArrowsWhiteBottom(arrows, moves, k, color) ==
    IF k > Len(moves) THEN arrows
    ELSE LET pt == move_to_rect(moves[k], cyc.rect, WhiteBottom)
         IN  IF pt.kind = "some"
             THEN PushArrowsWhiteBottom(
                      Append(arrows,
                             [x1 |-> 16 * region.x + pt.x1 * cyc.sx,
                              y1 |-> 16 * region.y + pt.y1 * cyc.sy,
                              x2 |-> 16 * region.x + pt.x2 * cyc.sx,
                              y2 |-> 16 * region.y + pt.y2 * cyc.sy,
                              color |-> color]),
                      moves, k + 1, color)
             ELSE PushArrowsWhiteBottom(arrows, moves, k + 1, color)

RECURSIVE PushArrows(_, _, _, _)
\* analyze_and_draw: `for best_move in top_moves { ... arrows.push(..) }` from
\* move k on; the points are in sixteenths
PushArrows(arrows, moves, k, color) ==
    IF k > Len(moves) THEN arrows
    ELSE LET pt == move_to_rect(moves[k], cyc.rect, cyc.orientation)
         IN  IF pt.kind = "some"
             THEN PushArrows(
                      Append(arrows,
                             [x1 |-> 16 * region.x + pt.x1 * cyc.sx,
                              y1 |-> 16 * region.y + pt.y1 * cyc.sy,
                              x2 |-> 16 * region.x + pt.x2 * cyc.sx,
                              y2 |-> 16 * region.y + pt.y2 * cyc.sy,
                              color |-> color]),
                      moves, k + 1, color)
             ELSE PushArrows(arrows, moves, k + 1, color)

\* run_analysis from the capture to `self.last_arrows = Some(Vec::new())`
RaBegin(dets, img) ==
    /\ pc = "frame" /\ ui = "Overlay"
    /\ region.some
    /\ CropW(region, img) > 0 /\ CropH(region, img) > 0
    /\ LET first == detections_to_fen(dets, WhiteBottom)
           orientation == detect_orientation(dets, first.rect)
           fen == detections_to_fen(dets, orientation)
       IN  cyc' = [active |-> TRUE,
                   placement |-> fen.placement, rect |-> fen.rect,
                   orientation |-> orientation,
                   sx |-> CropW(region, img), sy |-> CropH(region, img),
                   arrows0 |-> Shown(last_arrows),
                   failed |-> ~KingsOk(fen.placement), skip |-> ""]
    /\ last_arrows' = [some |-> TRUE, v |-> <<>>]
    /\ side' = "white"
    /\ pc' = "ra_position"
    /\ log' = <<>>
    /\ top_moves' = EmptyMap
    /\ UNCHANGED <<ui, region, multipv, session, engine, eng_local, procs, eop,
                   faulted>>
    /\ UNCHANGED mpv
    /\ UNCHANGED painted

\* the shapes of the session's "output0": the detector's [1, 17, n], an
\* undersized one, one of two dimensions, one with an empty batch
OutputShapes == {<<1, 17, 2>>, <<1, 3, 2>>, <<17, 2>>, <<0, 17, 2>>}

\* `into_dimensionality::<Ix3>().unwrap()` on an output that has not three
\* dimensions, `output[[0, c, i]]` on one with an empty batch
OutputPanics(shape) ==
    \/ Len(shape) # 3
    \/ Len(shape) = 3 /\ shape[1] = 0 /\ shape[2] > 4 /\ shape[3] > 0

\* run_analysis up to yolo::postprocess when the conversion or the indexing
\* of the output panics: the panic unwinds out of update
RaOutputPanics(shape, img) ==
    /\ pc = "frame" /\ ui = "Overlay"
    /\ region.some
    /\ CropW(region, img) > 0 /\ CropH(region, img) > 0
    /\ OutputPanics(shape)
    /\ pc' = "panicked"
    /\ UNCHANGED <<ui, region, multipv, session, engine, eng_local, procs,
                   last_arrows, eop, side, cyc, log, faulted, top_moves>>
    /\ UNCHANGED mpv
    /\ UNCHANGED painted

\* analyze_and_draw returns Err: the white query goes on to restart, the
\* black one only prints
RaErr(lg) ==
    /\ faulted' = (engine # 0)
    /\ cyc' = [cyc EXCEPT !.failed = TRUE]
    /\ log' = Append(lg, "gtm:err")
    /\ pc' = IF side = "white" /\ engine # 0 THEN "rs_restart"
             ELSE IF side = "white" THEN "ra_next" ELSE "ra_end"
    /\ UNCHANGED <<side, last_arrows, top_moves>>

\* get_top_moves: send_command("position fen ..")?
RaSendPosition ==
    /\ pc = "ra_position"
    /\ IF engine # 0 /\ WriteOk(engine)
       THEN /\ log' = Append(log, "send:position")
            /\ pc' = "ra_go"
            /\ UNCHANGED <<faulted, cyc, side, last_arrows, top_moves>>
       ELSE RaErr(IF engine # 0 THEN Append(log, "sendfail:position") ELSE log)
    /\ UNCHANGED <<ui, region, multipv, session, engine, eng_local, procs, eop>>
    /\ UNCHANGED mpv
    /\ UNCHANGED painted

\* get_top_moves: send_command("go depth ..")?; top_moves = HashMap::new()
RaSendGo ==
    /\ pc = "ra_go"
    /\ IF WriteOk(engine)
       THEN /\ log' = Append(log, "send:go")
            /\ pc' = "ra_read"
            /\ top_moves' = EmptyMap
            /\ UNCHANGED <<faulted, cyc, side, last_arrows>>
       ELSE RaErr(Append(log, "sendfail:go"))
    /\ UNCHANGED <<ui, region, multipv, session, engine, eng_local, procs, eop>>
    /\ UNCHANGED mpv
    /\ UNCHANGED painted

\* get_top_moves: read_line gives a line; on bestmove analyze_and_draw pushes
\* the arrows of the returned moves
RaReadLine(line) ==
    /\ pc = "ra_read"
    /\ procs[engine] = "run"
    /\ LET top == InfoUpdate(top_moves, line)
           moves == BestmoveResult(top, line)
       IN  IF StartsWith(line, "bestmove")
           THEN /\ last_arrows' =
                      IF last_arrows.some
                      THEN [last_arrows EXCEPT !.v =
                               PushArrows(last_arrows.v, moves, 1,
                                          IF side = "white" THEN "GREEN" ELSE "RED")]
                      ELSE last_arrows
                /\ cyc' = [cyc EXCEPT !.failed = cyc.failed \/ moves = <<>>]
                /\ pc' = IF side = "white" THEN "ra_next" ELSE "ra_end"
                /\ top_moves' = EmptyMap
           ELSE /\ top_moves' = top
                /\ UNCHANGED <<last_arrows, cyc, pc>>
    /\ UNCHANGED <<ui, region, multipv, session, engine, eng_local, procs, eop,
                   side, log, faulted>>
    /\ UNCHANGED mpv
    /\ UNCHANGED painted

\* get_top_moves: read_line returns Ok(0): Err("Engine process closed stream")
RaReadEof ==
    /\ pc = "ra_read"
    /\ procs[engine] \in {"exited", "killed"}
    /\ RaErr(log)
    /\ UNCHANGED <<ui, region, multipv, session, engine, eng_local, procs, eop>>
    /\ UNCHANGED mpv
    /\ UNCHANGED painted

\* get_top_moves: read_line(&mut line)? fails; the process keeps running
RaReadErr ==
    /\ pc = "ra_read"
    /\ procs[engine] = "run"
    /\ RaErr(log)
    /\ UNCHANGED <<ui, region, multipv, session, engine, eng_local, procs, eop>>
    /\ UNCHANGED mpv
    /\ UNCHANGED painted

\* the process after `let _ = self.process.kill()`
Killed(p) == IF procs[p] \in {"run", "hung"} THEN "killed" ELSE procs[p]

\* restart: kill, spawn, and the new handles replace the old ones
RestartSpawnOk ==
    /\ pc = "rs_restart"
    /\ NextPid <= MaxProcs
    /\ procs' = [procs EXCEPT ![engine] = Killed(engine), ![NextPid] = "run"]
    /\ engine' = NextPid
    /\ eop' = "restart"
    /\ faulted' = FALSE
    /\ log' = Append(log, "restart:begin")
    /\ pc' = "hs_uci"
    /\ UNCHANGED <<ui, region, multipv, session, eng_local, last_arrows, side, cyc,
                   top_moves>>
    /\ mpv' = 0
    /\ UNCHANGED painted

\* restart: kill, and Command::spawn()? fails: the handles stay the old ones
RestartSpawnFail ==
    /\ pc = "rs_restart"
    /\ procs' = [procs EXCEPT ![engine] = Killed(engine)]
    /\ faulted' = FALSE
    /\ log' = Append(Append(log, "restart:begin"), "restart:fail")
    /\ pc' = "ra_setopt"
    /\ UNCHANGED <<ui, region, multipv, session, engine, eng_local, last_arrows,
                   eop, side, cyc, top_moves>>
    /\ UNCHANGED mpv
    /\ UNCHANGED painted

\* run_analysis after restart without the set_option call
RaSetOptSkipped ==
    /\ pc = "ra_setopt"
    /\ pc' = "ra_next"
    /\ UNCHANGED <<ui, region, multipv, session, engine, eng_local, procs,
                   last_arrows, eop, side, cyc, faulted, top_moves, log, mpv>>
    /\ UNCHANGED painted

\* run_analysis after restart: `let _ = eng.set_option("MultiPV", ..)`
RaSetOpt ==
    /\ pc = "ra_setopt"
    /\ log' = Append(log, IF WriteOk(engine) THEN "send:setoption"
                          ELSE "sendfail:setoption")
    /\ pc' = "ra_next"
    /\ UNCHANGED <<ui, region, multipv, session, engine, eng_local, procs,
                   last_arrows, eop, side, cyc, faulted, top_moves>>
    /\ mpv' = IF WriteOk(engine) THEN multipv ELSE mpv
    /\ UNCHANGED painted

\* run_analysis goes on to the black query
RaBlack ==
    /\ pc = "ra_next"
    /\ side' = "black"
    /\ pc' = "ra_position"
    /\ UNCHANGED <<ui, region, multipv, session, engine, eng_local, procs,
                   last_arrows, eop, cyc, log, faulted, top_moves>>
    /\ UNCHANGED mpv
    /\ UNCHANGED painted

\* run_analysis returns; update() sets last_analysis_time and paints
RaReturn ==
    /\ pc = "ra_end"
    /\ pc' = "frame"
    /\ side' = ""
    /\ cyc' = NoCycle
    /\ log' = <<>>
    /\ UNCHANGED <<ui, region, multipv, session, engine, eng_local, procs,
                   last_arrows, eop, faulted, top_moves>>
    /\ UNCHANGED mpv
    /\ painted' = Shown(last_arrows)

\* ------------------------------------------------------ the engine processes

\* the processes a session's handles refer to
Held == {engine, eng_local} \ {0}

\* an engine stops writing and keeps its stdout open
EngineHang(p) ==
    /\ procs[p] = "run"
    /\ procs' = [procs EXCEPT ![p] = "hung"]
    /\ UNCHANGED <<ui, region, multipv, session, engine, eng_local, last_arrows,
                   pc, eop, side, cyc, log, faulted, top_moves>>
    /\ UNCHANGED mpv
    /\ UNCHANGED painted

\* an engine exits: its stdout reaches end-of-file, its stdin is closed
EngineExit(p) ==
    /\ procs[p] \in {"run", "hung"}
    /\ procs' = [procs EXCEPT ![p] = "exited"]
    /\ UNCHANGED <<ui, region, multipv, session, engine, eng_local, last_arrows,
                   pc, eop, side, cyc, log, faulted, top_moves>>
    /\ UNCHANGED mpv
    /\ UNCHANGED painted

\* the steps of the application's thread
AppNext ==
    \/ \E n \in 1..MaxMultiPv : MenuSetMultiPv(n)
    \/ MenuSelectRegion
    \/ SelectingDone
    \/ MenuStartOverlay
    \/ IoSessionOk
    \/ IoSessionFail
    \/ IoEngineNewSpawn
    \/ IoEngineNewSpawnFail
    \/ IoEngineUpdate
    \/ IoSetOpt
    \/ HsSendUci
    \/ \E line \in AppLines : HsReadUciok(line)
    \/ HsSendIsready
    \/ \E line \in AppLines : HsReadReadyok(line)
    \/ HsReadEof
    \/ HsReadErr
    \/ OverlayInsert
    \/ OverlayPaint
    \/ \E cause \in SkipCauses : RaSkip(cause)
    \/ \E dets \in DetScenarios, img \in ImgSizes : RaBegin(dets, img)
    \/ \E shape \in OutputShapes, img \in ImgSizes : RaOutputPanics(shape, img)
    \/ RaSendPosition
    \/ RaSendGo
    \/ \E line \in AppLines : RaReadLine(line)
    \/ RaReadEof
    \/ RaReadErr
    \/ RestartSpawnOk
    \/ RestartSpawnFail
    \/ RaSetOpt
    \/ RaBlack
    \/ RaReturn

\* =================================================== engine/stockfish.rs
\* SfSpec: the client of engine/stockfish.rs. Time is in milliseconds; a
\* blocking read_line takes one of Delays.

VARIABLES
    sfpc,         \* where the client is: idle (no session), ready, or a step
    sf_proc,      \* the child process: none, run, hung (silent, stream open), exited
    sf_wait,      \* the running wait_for: [expected, timeout, ret, op]
    sf_elapsed,   \* start.elapsed() of the running wait loop, saturating at TimeCap
    sf_moves,     \* analyze: the Vec `moves`
    sf_hist,      \* the lines the read loop of the running analyze has read
    sf_log,       \* the commands written and the awaited lines read by the running operation
    sf_res,       \* the last operation's result
    sf_lines,     \* analyze: the argument `lines`
    sf_last_read, \* what the last read_line returned: none, line, eof, err
    sf_search     \* the engine's search whose bestmove was not read yet: none,
                  \* own (started by the running analyze), old (by an earlier one)

sfvars ==
    <<sfpc, sf_proc, sf_wait, sf_elapsed, sf_moves, sf_hist, sf_log, sf_res,
      sf_lines, sf_last_read, sf_search>>

\* Duration::from_secs(5) of new's wait_for("uciok")
HandshakeTimeoutMs == 5000
\* Duration::from_secs(2) of analyze's wait_for("readyok")
SyncTimeoutMs == 2000
\* analyze's `timeout`
AnalysisTimeoutMs == 5000
\* wait_for's Duration::from_millis(100)
EofGraceMs == 100

\* elapsed times saturate here (above every timeout)
TimeCap == 6000
\* lines the read loop of one analyze reads at most
MaxSfReads == 3
\* the greatest `lines` argument
MaxLinesArg == 2

Delays == {0, 1500, TimeCap}

Sat(e, d) == IF e + d > TimeCap THEN TimeCap ELSE e + d

SfLines ==
    {L_uciok, L_readyok, L_info1, L_info1b, L_info2, L_infoString, L_bestG}

\* line.contains(word), for a word of the vocabulary
Contains(line, word) ==
    \E i \in 1..Len(line) : line[i] = word

\* line.contains("info depth")
ContainsInfoDepth(line) ==
    \E i \in 1..(Len(line) - 1) : line[i] = "info" /\ line[i + 1] = "depth"

\* line.split(" pv ").nth(1), then split_whitespace().next(): the token after
\* the first " pv "
PvPart(line) ==
    LET hits == {i \in 2..(Len(line) - 1) : line[i] = "pv"}
        i == CHOOSE k \in hits : \A j \in hits : k <= j
    IN  line[i + 1]

InSeq(q, x) == \E i \in 1..Len(q) : q[i] = x

\* the info branch of analyze's read loop: `moves` after the line
SfPushMove(moves, line) ==
    IF ContainsInfoDepth(line) /\ ContainsSpaced(line, "pv")
    THEN LET best_move == PvPart(line)
         IN  IF best_move # NoToken /\ ~InSeq(moves, best_move)
             THEN Append(moves, best_move)
             ELSE moves
    ELSE moves

Reverse(q) == [i \in 1..Len(q) |-> q[Len(q) + 1 - i]]

Take(q, n) == [i \in 1..(IF Len(q) < n THEN Len(q) ELSE n) |-> q[i]]

\* moves.into_iter().rev().take(lines as usize).collect()
SfFinal(moves, lines) == Take(Reverse(moves), lines)

NoWait == [expected |-> "", timeout |-> 0, ret |-> "", op |-> ""]

SfNoResult == [op |-> "", done |-> FALSE, ok |-> FALSE, moves |-> <<>>, why |-> ""]

SfInit ==
    /\ sfpc = "idle"
    /\ sf_proc = "none"
    /\ sf_wait = NoWait
    /\ sf_elapsed = 0
    /\ sf_moves = <<>>
    /\ sf_hist = <<>>
    /\ sf_log = <<>>
    /\ sf_res = SfNoResult
    /\ sf_lines = 1
    /\ sf_last_read = "none"
    /\ sf_search = "none"

SfAlive == sf_proc \in {"run", "hung"}

\* an operation returns Err: new drops the half-built session (Drop: quit, kill),
\* analyze leaves the session with its caller
SfFail(op, why, lg) ==
    /\ sf_res' = [op |-> op, done |-> TRUE, ok |-> FALSE, moves |-> <<>>, why |-> why]
    /\ sf_wait' = NoWait
    /\ IF op = "new"
       THEN /\ sfpc' = "idle"
            /\ sf_proc' = "exited"
            /\ sf_log' = IF SfAlive THEN Append(lg, "send:quit") ELSE lg
       ELSE /\ sfpc' = "ready"
            /\ sf_log' = lg
            /\ UNCHANGED sf_proc

\* Command::new(path)...spawn()? succeeds: a new engine, searching nothing
SfNewSpawn ==
    /\ sfpc = "idle"
    /\ sf_proc' = "run"
    /\ sfpc' = "new_uci"
    /\ sf_log' = <<>>
    /\ sf_res' = SfNoResult
    /\ sf_last_read' = "none"
    /\ UNCHANGED <<sf_wait, sf_elapsed, sf_moves, sf_hist, sf_lines>>
    /\ sf_search' = "none"

\* Command::new(path)...spawn()? fails
SfNewSpawnFail ==
    /\ sfpc = "idle"
    /\ sf_res' = [op |-> "new", done |-> TRUE, ok |-> FALSE, moves |-> <<>>,
                  why |-> "spawn"]
    /\ sf_log' = <<>>
    /\ sf_last_read' = "none"
    /\ UNCHANGED <<sfpc, sf_proc, sf_wait, sf_elapsed, sf_moves, sf_hist, sf_lines>>
    /\ UNCHANGED sf_search

\* send(msg)? at step `from` of operation `op`, going on to step `to`
SfSend(op, from, ev, to) ==
    /\ sfpc = from
    /\ IF SfAlive
       THEN /\ sf_log' = Append(sf_log, ev)
            /\ sfpc' = to
            /\ UNCHANGED <<sf_proc, sf_wait, sf_res>>
       ELSE SfFail(op, "senderr", sf_log)
    /\ UNCHANGED <<sf_elapsed, sf_moves, sf_hist, sf_lines, sf_last_read>>
    /\ UNCHANGED sf_search

\* send(msg)? followed by wait_for(expected, timeout): `let start = Instant::now()`
SfSendAndWait(op, from, ev, expected, timeout, ret) ==
    /\ sfpc = from
    /\ IF SfAlive
       THEN /\ sf_log' = Append(sf_log, ev)
            /\ sfpc' = "wait"
            /\ sf_wait' = [expected |-> expected, timeout |-> timeout,
                           ret |-> ret, op |-> op]
            /\ sf_elapsed' = 0
            /\ UNCHANGED <<sf_proc, sf_res>>
       ELSE /\ SfFail(op, "senderr", sf_log)
            /\ UNCHANGED sf_elapsed
    /\ UNCHANGED <<sf_moves, sf_hist, sf_lines, sf_last_read>>
    /\ UNCHANGED sf_search

\* new: sf.send("uci")?; sf.wait_for("uciok", 5 s)?
SfNewUci ==
    SfSendAndWait("new", "new_uci", "send:uci", "uciok", HandshakeTimeoutMs,
                  "new_threads")

\* new: sf.set_option("Threads", "8")?
SfNewThreads ==
    SfSend("new", "new_threads", "send:setoption", "new_hash")

\* new: sf.set_option("Hash", "256")?; Ok(sf)
SfNewHash ==
    /\ sfpc = "new_hash"
    /\ IF SfAlive
       THEN /\ sf_log' = Append(sf_log, "send:setoption")
            /\ sfpc' = "ready"
            /\ sf_res' = [op |-> "new", done |-> TRUE, ok |-> TRUE,
                          moves |-> <<>>, why |-> "ok"]
            /\ UNCHANGED <<sf_proc, sf_wait>>
       ELSE SfFail("new", "senderr", sf_log)
    /\ UNCHANGED <<sf_elapsed, sf_moves, sf_hist, sf_lines, sf_last_read>>
    /\ UNCHANGED sf_search

\* wait_for: `if start.elapsed() > timeout { return Err }`
SfWaitTimeout ==
    /\ sfpc = "wait"
    /\ sf_elapsed > sf_wait.timeout
    /\ SfFail(sf_wait.op, "wait_timeout", sf_log)
    /\ UNCHANGED <<sf_elapsed, sf_moves, sf_hist, sf_lines, sf_last_read>>
    /\ UNCHANGED sf_search

\* wait_for: read_line returns a line after d ms; a bestmove line ends the
\* search the engine was in. The engine answers isready at once, also while
\* it searches.
SfWaitRead(line, d) ==
    /\ sfpc = "wait"
    /\ sf_elapsed <= sf_wait.timeout
    /\ sf_proc = "run"
    /\ sf_elapsed' = Sat(sf_elapsed, d)
    /\ sf_last_read' = "line"
    /\ IF Contains(line, sf_wait.expected)
       THEN /\ sfpc' = sf_wait.ret
            /\ sf_log' = Append(sf_log, "read:" \o sf_wait.expected)
            /\ sf_wait' = NoWait
       ELSE UNCHANGED <<sfpc, sf_log, sf_wait>>
    /\ UNCHANGED <<sf_proc, sf_moves, sf_hist, sf_res, sf_lines>>
    /\ sf_search' = IF Contains(line, "bestmove") THEN "none" ELSE sf_search

\* wait_for: read_line returns Ok(0) after d ms, the line stays empty
SfWaitReadEof(d) ==
    /\ sfpc = "wait"
    /\ sf_elapsed <= sf_wait.timeout
    /\ sf_proc = "exited"
    /\ sf_elapsed' = Sat(sf_elapsed, d)
    /\ sf_last_read' = "eof"
    /\ IF Sat(sf_elapsed, d) > EofGraceMs
       THEN SfFail(sf_wait.op, "eof", sf_log)
       ELSE UNCHANGED <<sfpc, sf_proc, sf_log, sf_wait, sf_res>>
    /\ UNCHANGED <<sf_moves, sf_hist, sf_lines>>
    /\ UNCHANGED sf_search

\* wait_for: read_line(&mut line)? fails (an I/O error, bytes that are not UTF-8)
SfWaitReadErr ==
    /\ sfpc = "wait"
    /\ sf_elapsed <= sf_wait.timeout
    /\ sf_proc = "run"
    /\ sf_last_read' = "err"
    /\ SfFail(sf_wait.op, "ioerr", sf_log)
    /\ UNCHANGED <<sf_elapsed, sf_moves, sf_hist, sf_lines>>
    /\ UNCHANGED sf_search

\* analyze(fen, depth, lines) is called on a constructed session; a search
\* an earlier call left unfinished is an old one from now on
SfAnalyzeCall(n) ==
    /\ sfpc = "ready"
    /\ sfpc' = "an_isready"
    /\ sf_lines' = n
    /\ sf_log' = <<>>
    /\ sf_res' = SfNoResult
    /\ sf_moves' = <<>>
    /\ sf_hist' = <<>>
    /\ sf_last_read' = "none"
    /\ UNCHANGED <<sf_proc, sf_wait, sf_elapsed>>
    /\ sf_search' = IF sf_search = "none" THEN "none" ELSE "old"

\* analyze: self.send("isready")?; self.wait_for("readyok", 2 s)?
SfAnalyzeSync ==
    SfSendAndWait("analyze", "an_isready", "send:isready", "readyok",
                  SyncTimeoutMs, "an_multipv")

\* analyze: self.set_option("MultiPV", lines)?
SfAnalyzeMultiPv ==
    SfSend("analyze", "an_multipv", "send:setoption", "an_position")

\* analyze: self.send("position fen ...")?
SfAnalyzePosition ==
    SfSend("analyze", "an_position", "send:position", "an_go")

\* analyze: self.send("go depth ...")?; moves = Vec::new(); start_time = now.
\* The engine starts the search when the one before it has ended: what an
\* old search still writes comes first.
SfAnalyzeGo ==
    /\ sfpc = "an_go"
    /\ IF SfAlive
       THEN /\ sf_log' = Append(sf_log, "send:go")
            /\ sfpc' = "an_loop"
            /\ sf_elapsed' = 0
            /\ UNCHANGED <<sf_proc, sf_wait, sf_res>>
       ELSE /\ SfFail("analyze", "senderr", sf_log)
            /\ UNCHANGED sf_elapsed
    /\ UNCHANGED <<sf_moves, sf_hist, sf_lines, sf_last_read>>
    /\ sf_search' = IF SfAlive /\ sf_search = "none" THEN "own" ELSE sf_search

\* analyze returns Ok(moves.rev().take(lines)) after its loop ended by `why`
SfAnalyzeReturn(moves, why) ==
    /\ sfpc' = "ready"
    /\ sf_res' = [op |-> "analyze", done |-> TRUE, ok |-> TRUE,
                  moves |-> SfFinal(moves, sf_lines), why |-> why]

\* the same exit reported as an error
SfAnalyzeTimeoutAsError ==
    /\ sfpc = "an_loop"
    /\ sf_elapsed > AnalysisTimeoutMs
    /\ SfFail("analyze", "timeout", sf_log)
    /\ UNCHANGED <<sf_elapsed, sf_moves, sf_hist, sf_lines, sf_last_read>>
    /\ UNCHANGED sf_search

\* analyze: `if start_time.elapsed() > timeout { let _ = self.send("stop"); break; }`
SfAnalyzeTimeout ==
    /\ sfpc = "an_loop"
    /\ sf_elapsed > AnalysisTimeoutMs
    /\ sf_log' = Append(sf_log, IF SfAlive THEN "send:stop" ELSE "sendfail:stop")
    /\ SfAnalyzeReturn(sf_moves, "timeout")
    /\ UNCHANGED <<sf_proc, sf_wait, sf_elapsed, sf_moves, sf_hist, sf_lines,
                   sf_last_read>>
    /\ UNCHANGED sf_search

\* analyze: read_line returns a line after d ms: a line of the call's own
\* search, or of an old one whose bestmove was not read
SfAnalyzeRead(line, d) ==
    /\ sfpc = "an_loop"
    /\ sf_elapsed <= AnalysisTimeoutMs
    /\ sf_proc = "run"
    /\ Len(sf_hist) < MaxSfReads
    /\ sf_hist' = Append(sf_hist, line)
    /\ sf_elapsed' = Sat(sf_elapsed, d)
    /\ sf_last_read' = "line"
    /\ IF Contains(line, "bestmove")
       THEN /\ SfAnalyzeReturn(sf_moves, "bestmove")
            /\ UNCHANGED sf_moves
       ELSE /\ sf_moves' = SfPushMove(sf_moves, line)
            /\ UNCHANGED <<sfpc, sf_res>>
    /\ UNCHANGED <<sf_proc, sf_wait, sf_log, sf_lines>>
    /\ sf_search' = IF Contains(line, "bestmove") /\ sf_search = "own" THEN "none"
                    ELSE sf_search

\* analyze: read_line returns Ok(0): `if line.is_empty() { break; }`
SfAnalyzeReadEof(d) ==
    /\ sfpc = "an_loop"
    /\ sf_elapsed <= AnalysisTimeoutMs
    /\ sf_proc = "exited"
    /\ sf_elapsed' = Sat(sf_elapsed, d)
    /\ sf_last_read' = "eof"
    /\ SfAnalyzeReturn(sf_moves, "eof")
    /\ UNCHANGED <<sf_proc, sf_wait, sf_moves, sf_hist, sf_log, sf_lines>>
    /\ UNCHANGED sf_search

\* analyze: reader.read_line(&mut line)? fails
SfAnalyzeReadErr ==
    /\ sfpc = "an_loop"
    /\ sf_elapsed <= AnalysisTimeoutMs
    /\ sf_proc = "run"
    /\ sf_last_read' = "err"
    /\ SfFail("analyze", "ioerr", sf_log)
    /\ UNCHANGED <<sf_elapsed, sf_moves, sf_hist, sf_lines>>
    /\ UNCHANGED sf_search

\* the engine stops writing and keeps its stdout open
SfEngineHang ==
    /\ sf_proc = "run"
    /\ sf_proc' = "hung"
    /\ UNCHANGED <<sfpc, sf_wait, sf_elapsed, sf_moves, sf_hist, sf_log, sf_res,
                   sf_lines, sf_last_read>>
    /\ UNCHANGED sf_search

\* the engine exits: its stdout reaches end-of-file, its stdin is closed
SfEngineExit ==
    /\ sf_proc \in {"run", "hung"}
    /\ sf_proc' = "exited"
    /\ UNCHANGED <<sfpc, sf_wait, sf_elapsed, sf_moves, sf_hist, sf_log, sf_res,
                   sf_lines, sf_last_read>>
    /\ UNCHANGED sf_search

\* the steps of the client
SfClientNext ==
    \/ SfNewSpawn
    \/ SfNewSpawnFail
    \/ SfNewUci
    \/ SfNewThreads
    \/ SfNewHash
    \/ SfWaitTimeout
    \/ \E line \in SfLines, d \in Delays : SfWaitRead(line, d)
    \/ \E d \in Delays : SfWaitReadEof(d)
    \/ SfWaitReadErr
    \/ \E n \in 1..MaxLinesArg : SfAnalyzeCall(n)
    \/ SfAnalyzeSync
    \/ SfAnalyzeMultiPv
    \/ SfAnalyzePosition
    \/ SfAnalyzeGo
    \/ SfAnalyzeTimeout
    \/ \E line \in SfLines, d \in Delays : SfAnalyzeRead(line, d)
    \/ \E d \in Delays : SfAnalyzeReadEof(d)
    \/ SfAnalyzeReadErr

\* ------------------------------------------------ properties of SfSpec

\* the PV moves of the lines the read loop has read: the token after "pv" of
\* every "info depth ... pv <move>" line
PvMovesRead(h) ==
    {LinePv(h[k]) : k \in {i \in 1..Len(h) :
        /\ ContainsInfoDepth(h[i])
        /\ \E j \in 2..(Len(h[i]) - 1) : h[i][j] = "pv"}}

C7_EofIsAnError ==
    (sf_res.done /\ sf_last_read = "eof") => ~sf_res.ok

\* C9: analyze ended by a bestmove line that carries a move, with no PV line
\* parsed before it, returns the one-element list holding that move.
C9_BestmoveFallback ==
    (/\ sf_res.done /\ sf_res.op = "analyze" /\ sf_res.ok
     /\ Len(sf_hist) >= 1
     /\ Contains(sf_hist[Len(sf_hist)], "bestmove")
     /\ get_token_value(sf_hist[Len(sf_hist)], "bestmove") # NoToken
     /\ PvMovesRead(sf_hist) = {})
    => sf_res.moves = <<get_token_value(sf_hist[Len(sf_hist)], "bestmove")>>

\* C10: new returns a session only after uci was sent, uciok read, isready
\* sent and readyok read, in this order and before any other command.
C10_HandshakeOrder ==
    (sf_res.done /\ sf_res.op = "new" /\ sf_res.ok)
    => /\ Len(sf_log) >= 4
       /\ sf_log[1] = "send:uci"
       /\ sf_log[2] = "read:uciok"
       /\ sf_log[3] = "send:isready"
       /\ sf_log[4] = "read:readyok"

\* C5, the stockfish.rs half: a wait on a silent engine can still end (by
\* its timeout)
SfWaitCanEnd ==
    (sfpc \in {"wait", "an_loop"} /\ sf_proc = "hung") => ENABLED SfClientNext

\* C29: analyze returns one move per PV index that the info lines it read
\* reported, in ascending index order, each the move of the last line that
\* reported the index (the indices being within the `lines` asked for).
C29_MovesByPvIndex ==
    (/\ sf_res.done /\ sf_res.ok /\ sf_res.op = "analyze"
     /\ \A n \in ReportedIdx(sf_hist) : n <= sf_lines)
    => /\ Len(sf_res.moves) = Cardinality(ReportedIdx(sf_hist))
       /\ \A n \in ReportedIdx(sf_hist) :
             sf_res.moves[Cardinality({m \in ReportedIdx(sf_hist) : m <= n})]
                 = LastPvFor(sf_hist, n)

\* C30: every line the read loop of analyze takes was written by the search
\* that the call's own go started.
C30_NoStaleLineParsed ==
    [][(sfpc = "an_loop" /\ sf_hist' # sf_hist) => sf_search = "own"]_sfvars

\* ================================================================ yolo.rs
\* FnSpec: the pure functions of the vision stage, each applied to inputs
\* drawn from bounded sets.

VARIABLES
    fn_op,        \* the function applied last, "" before the first call
    fn_in,        \* its arguments
    fn_out        \* its result

fnvars == <<fn_op, fn_in, fn_out>>

\* detections one call of non_maximum_suppression gets at most
MaxDets == 3

FnInit ==
    /\ fn_op = ""
    /\ fn_in = <<>>
    /\ fn_out = <<>>

\* the sequences over S of length at most n
SeqsUpTo(S, n) == UNION {[1..k -> S] : k \in 0..n}

Max(a, b) == IF a > b THEN a ELSE b

\* calculate_iou(a, b) > thr / 100.  Areas are taken four-fold (doubled
\* bounds); 0/0 is NaN, which is greater than nothing
IouExceedsSameClass(a, b, thr) ==
    LET A == Bounds2(a)
        B == Bounds2(b)
        inter_x1 == Max(A.x1, B.x1)
        inter_y1 == Max(A.y1, B.y1)
        inter_x2 == Min(A.x2, B.x2)
        inter_y2 == Min(A.y2, B.y2)
        inter_area == (inter_x2 - inter_x1) * (inter_y2 - inter_y1)
        union == 4 * a.w * a.h + 4 * b.w * b.h - inter_area
    IN  /\ a.class_id = b.class_id
        /\ IF inter_x2 < inter_x1 \/ inter_y2 < inter_y1 THEN 0 > thr
           ELSE union # 0 /\ 100 * inter_area > thr * union

IouExceeds(a, b, thr) ==
    LET A == Bounds2(a)
        B == Bounds2(b)
        inter_x1 == Max(A.x1, B.x1)
        inter_y1 == Max(A.y1, B.y1)
        inter_x2 == Min(A.x2, B.x2)
        inter_y2 == Min(A.y2, B.y2)
        inter_area == (inter_x2 - inter_x1) * (inter_y2 - inter_y1)
        union == 4 * a.w * a.h + 4 * b.w * b.h - inter_area
    IN  IF inter_x2 < inter_x1 \/ inter_y2 < inter_y1 THEN 0 > thr
        ELSE union # 0 /\ 100 * inter_area > thr * union

\* the sequence without its element i
RemoveAt(q, i) == [k \in 1..(Len(q) - 1) |-> IF k < i THEN q[k] ELSE q[k + 1]]

\* no sorting at all
SortKeepOrder(dets) ==
    dets

RECURSIVE SortByConf(_)
\* detections.sort_by(confidence, descending): a stable sort
SortByConf(dets) ==
    IF dets = <<>> THEN <<>>
    ELSE LET i == CHOOSE k \in 1..Len(dets) :
                     /\ \A j \in 1..Len(dets) : dets[j].confidence <= dets[k].confidence
                     /\ \A j \in 1..(k - 1) : dets[j].confidence < dets[k].confidence
         IN  <<dets[i]>> \o SortByConf(RemoveAt(dets, i))

RECURSIVE NmsKeepNextOnly(_, _, _, _)
\* a loop that compares a kept detection with its successor only
NmsKeepNextOnly(sorted, active, i, thr) ==
    IF i > Len(sorted) THEN {}
    ELSE IF i \notin active THEN NmsKeepNextOnly(sorted, active, i + 1, thr)
    ELSE {i} \cup
         NmsKeepNextOnly(sorted,
                 active \ {j \in {i + 1} \cap (1..Len(sorted)) :
                              IouExceeds(sorted[i], sorted[j], thr)},
                 i + 1, thr)

RECURSIVE NmsKeep(_, _, _, _)
\* the loop `for i in 0..detections.len()`: the positions pushed to keep from
\* position i on, `active` being the positions not suppressed so far
NmsKeep(sorted, active, i, thr) ==
    IF i > Len(sorted) THEN {}
    ELSE IF i \notin active THEN NmsKeep(sorted, active, i + 1, thr)
    ELSE {i} \cup
         NmsKeep(sorted,
                 active \ {j \in (i + 1)..Len(sorted) :
                              IouExceeds(sorted[i], sorted[j], thr)},
                 i + 1, thr)

\* the positions of the sorted list that non_maximum_suppression keeps
KeptPositions(dets, thr) ==
    LET sorted == SortByConf(dets)
    IN  NmsKeep(sorted, 1..Len(sorted), 1, thr)

\* the elements of q at the positions in S, in q's order
SubSeqAt(q, S) ==
    LET F[i \in 0..Len(q)] ==
            IF i = 0 THEN <<>>
            ELSE IF i \in S THEN Append(F[i - 1], q[i]) ELSE F[i - 1]
    IN  F[Len(q)]

non_maximum_suppression(dets, thr) ==
    SubSeqAt(SortByConf(dets), KeptPositions(dets, thr))

\* detections: three boxes in a chain (IoU 2/3, 2/3 and 3/7), one apart, one
\* of no area, with confidences and classes
NmsPool ==
    {Det(10, 10, 10, 10, 1, 90), Det(12, 10, 10, 10, 1, 70),
     Det(14, 10, 10, 10, 1, 50), Det(12, 10, 10, 10, 7, 70),
     Det(14, 10, 10, 10, 7, 50), Det(12, 10, 10, 10, 1, 90),
     Det(40, 40, 10, 10, 1, 70), Det(10, 10, 0, 0, 1, 90),
     Det(10, 10, 0, 0, 7, 50)}

\* IoU thresholds, in hundredths
IouThresholds == {0, 45}

\* non_maximum_suppression(detections, iou_threshold)
NmsCall(dets, thr) ==
    /\ fn_op = ""
    /\ fn_op' = "nms"
    /\ fn_in' = [dets |-> dets, thr |-> thr]
    /\ fn_out' = non_maximum_suppression(dets, thr)

\* ---------------------------------------------------- vision/inference.rs

\* `self.iou(&best.bbox, &d.bbox) < 0.45`: the intersection has sides clamped
\* at 0, and the quotient of two zeros is NaN, which is below nothing
DetectorIouBelow(box1, box2) ==
    LET A == Bounds2(box1)
        B == Bounds2(box2)
        x1 == Max(A.x1, B.x1)
        y1 == Max(A.y1, B.y1)
        x2 == Min(A.x2, B.x2)
        y2 == Min(A.y2, B.y2)
        intersection == Max(x2 - x1, 0) * Max(y2 - y1, 0)
        union == 4 * box1.w * box1.h + 4 * box2.w * box2.h - intersection
    IN  IF union > 0 THEN 100 * intersection < 45 * union
        ELSE IF union < 0 THEN 100 * intersection > 45 * union
        ELSE FALSE

RECURSIVE DetectorNmsKeep(_, _, _)
\* the loop `while !detections.is_empty()`: the positions of the sorted list
\* pushed to result from position i on, `active` being the positions that
\* retain has left in the list
DetectorNmsKeep(sorted, active, i) ==
    IF i > Len(sorted) THEN {}
    ELSE IF i \notin active THEN DetectorNmsKeep(sorted, active, i + 1)
    ELSE {i} \cup
         DetectorNmsKeep(sorted,
                 {j \in active : j > i /\ DetectorIouBelow(sorted[i], sorted[j])},
                 i + 1)

\* Detector::nms
detector_nms(dets) ==
    LET sorted == SortByConf(dets)
    IN  SubSeqAt(sorted, DetectorNmsKeep(sorted, 1..Len(sorted), 1))

\* detections given to Detector::nms: two boxes of IoU 36/80, two boxes of no
\* area far from each other, a box on the first one
DetectorPool ==
    {Det(20, 10, 29, 2, 1, 90), Det(31, 10, 29, 2, 1, 70),
     Det(100, 100, 0, 0, 1, 80), Det(300, 300, 0, 0, 7, 60),
     Det(22, 10, 29, 2, 7, 50)}

\* self.nms(detections)
DetectorNmsCall(dets) ==
    /\ fn_op = ""
    /\ fn_op' = "detector_nms"
    /\ fn_in' = [dets |-> dets, thr |-> 45]
    /\ fn_out' = detector_nms(dets)

\* ---------------------------------------------------------- postprocess

\* anchors one output tensor holds at most
MaxAnchors == 2

\* class scores and confidence thresholds, in hundredths
PpScores == {-10, 0, 25, 80}
ConfThresholds == {0, 25}

\* the anchors of an output tensor: the channels x, y, w, h and two class
\* scores
AnchorPool ==
    {<<b[1], b[2], b[3], b[4], s1, s2>> :
        b \in {<<10, 10, 10, 10>>, <<12, 10, 10, 10>>}, s1 \in PpScores, s2 \in PpScores}

RECURSIVE ClassScan(_, _, _, _)
\* `for c in 4..rows`: max_score and class_id after the channels from c on
\* (c counts from 1, the class scores start at 5)
ClassScan(anchor, c, max_score, class_id) ==
    IF c > Len(anchor) THEN [max_score |-> max_score, class_id |-> class_id]
    ELSE IF anchor[c] > max_score
         THEN ClassScan(anchor, c + 1, anchor[c], c - 5)
         ELSE ClassScan(anchor, c + 1, max_score, class_id)

RECURSIVE CandidatesAtLeast(_, _, _)
\* the loop with `max_score >= conf_threshold`
CandidatesAtLeast(tensor, conf, i) ==
    IF i > Len(tensor) THEN <<>>
    ELSE LET best == ClassScan(tensor[i], 5, 0, 0)
             rest == CandidatesAtLeast(tensor, conf, i + 1)
         IN  IF best.max_score >= conf
             THEN <<Det(tensor[i][1], tensor[i][2], tensor[i][3], tensor[i][4],
                        best.class_id, best.max_score)>> \o rest
             ELSE rest

RECURSIVE Candidates(_, _, _)
\* `for i in 0..cols`: the detections pushed for the anchors from i on
Candidates(tensor, conf, i) ==
    IF i > Len(tensor) THEN <<>>
    ELSE LET best == ClassScan(tensor[i], 5, 0, 0)
             rest == Candidates(tensor, conf, i + 1)
         IN  IF best.max_score > conf
             THEN <<Det(tensor[i][1], tensor[i][2], tensor[i][3], tensor[i][4],
                        best.class_id, best.max_score)>> \o rest
             ELSE rest

postprocess(tensor, conf, iou) ==
    non_maximum_suppression(Candidates(tensor, conf, 1), iou)

\* postprocess(output, conf_threshold, iou_threshold)
PostprocessCall(tensor, conf, iou) ==
    /\ fn_op = ""
    /\ fn_op' = "postprocess"
    /\ fn_in' = [tensor |-> tensor, conf |-> conf, iou |-> iou]
    /\ fn_out' = [candidates |-> Candidates(tensor, conf, 1),
                  detections |-> postprocess(tensor, conf, iou)]

\* ======================================================== vision/board.rs

\* detections given to vision/board.rs: a board, kings on and off it, two
\* kings of one square, a pawn, a class with no piece, a board of no width
BoardPool ==
    {Det(40, 40, 80, 80, 0, 90), Det(5, 5, 8, 8, 1, 90), Det(75, 75, 8, 8, 1, 80),
     Det(6, 6, 8, 8, 1, 70), Det(45, 5, 8, 8, 7, 90), Det(-5, 5, 8, 8, 7, 80),
     Det(100, 5, 8, 8, 7, 70), Det(15, 65, 8, 8, 6, 90), Det(25, 25, 8, 8, 13, 90),
     Det(5, 5, 0, 80, 0, 90)}

\* `detections.iter().find(|d| d.class_id == 0)` and the box taken from it,
\* the left and top edges doubled
BoardBox(dets) ==
    LET found == {i \in 1..Len(dets) : dets[i].class_id = 0}
        b == dets[CHOOSE i \in found : \A j \in found : i <= j]
    IN  IF found = {} THEN [x2 |-> 0, y2 |-> 0, w |-> 640, h |-> 640]
        ELSE [x2 |-> 2 * b.x - b.w, y2 |-> 2 * b.y - b.h, w |-> b.w, h |-> b.h]

\* `((c - b) / size * 8.0).floor() as i32` for the doubled offset off2: the
\* cast maps NaN to 0 and saturates the infinities
CellIndex(off2, size) ==
    IF size > 0 THEN (4 * off2) \div size
    ELSE IF size < 0 THEN (0 - 4 * off2) \div (0 - size)
    ELSE IF off2 > 0 THEN 2147483647
    ELSE IF off2 < 0 THEN 0 - 2147483647 - 1
    ELSE 0

RECURSIVE BoardPieces(_, _, _)
\* the loop over the detections: the pieces set on the board by detections
\* k..Len(dets), in their order
BoardPieces(dets, box, k) ==
    IF k > Len(dets) THEN <<>>
    ELSE LET d == dets[k]
             col == CellIndex(2 * d.x - box.x2, box.w)
             row == CellIndex(2 * d.y - box.y2, box.h)
             rest == BoardPieces(dets, box, k + 1)
         IN  IF d.class_id = 0 \/ d.class_id > 12 THEN rest
             ELSE IF col >= 0 /\ col < 8 /\ row >= 0 /\ row < 8
                  THEN <<[row |-> row, col |-> col, class_id |-> d.class_id]>> \o rest
                  ELSE rest

\* the kings counted among the pieces set on the board
board_detections_to_fen_kings_on_board(dets, show_white_moves) ==
    LET pieces == BoardPieces(dets, BoardBox(dets), 1)
        white_king_count == Cardinality({i \in 1..Len(pieces) : pieces[i].class_id = 1})
        black_king_count == Cardinality({i \in 1..Len(pieces) : pieces[i].class_id = 7})
    IN  IF white_king_count # 1 \/ black_king_count # 1
        THEN [some |-> FALSE, fen |-> <<>>]
        ELSE [some |-> TRUE,
              fen |-> JoinRows(FillGrid(EmptyGrid, pieces, 1), 0)
                      \o <<" ", IF show_white_moves THEN "w" ELSE "b",
                           " ", "-", " ", "-", " ", "0", " ", "1">>]

\* vision::board::detections_to_fen: None, or Some(Fen::from_setup(..)) as
\* characters
board_detections_to_fen(dets, show_white_moves) ==
    LET pieces == BoardPieces(dets, BoardBox(dets), 1)
        white_king_count == Cardinality({i \in 1..Len(dets) : dets[i].class_id = 1})
        black_king_count == Cardinality({i \in 1..Len(dets) : dets[i].class_id = 7})
    IN  IF white_king_count # 1 \/ black_king_count # 1
        THEN [some |-> FALSE, fen |-> <<>>]
        ELSE [some |-> TRUE,
              fen |-> JoinRows(FillGrid(EmptyGrid, pieces, 1), 0)
                      \o <<" ", IF show_white_moves THEN "w" ELSE "b",
                           " ", "-", " ", "-", " ", "0", " ", "1">>]

\* detections_to_fen(&detections, show_white_moves)
BoardFenCall(dets, show_white_moves) ==
    /\ fn_op = ""
    /\ fn_op' = "board_fen"
    /\ fn_in' = [dets |-> dets, show_white_moves |-> show_white_moves]
    /\ fn_out' = board_detections_to_fen(dets, show_white_moves)

\* ---------------------------------------------------- the grid round trip

\* boards whose cell centres are whole numbers: one at the origin, one of
\* unequal sides, one left of the origin
RtBoards ==
    {Det(64, 64, 128, 128, 0, 90), Det(100, 60, 16, 48, 0, 90),
     Det(-16, 40, 80, 16, 0, 90)}

\* move_to_rect for a move that starts on the square of the placement grid's
\* (row, col), then the loop of detections_to_fen on a piece detected at the
\* point
RoundTripCall(row, col, board, orientation) ==
    /\ fn_op = ""
    /\ fn_op' = "round_trip"
    /\ fn_in' = [row |-> row, col |-> col, board |-> board, orientation |-> orientation]
    /\ LET file == <<"a", "b", "c", "d", "e", "f", "g", "h">>[col + 1]
           rank == <<"8", "7", "6", "5", "4", "3", "2", "1">>[row + 1]
           pt == move_to_rect_chars(<<file, rank, file, rank>>,
                                    [x2 |-> Bounds2(board).x1, y2 |-> Bounds2(board).y1,
                                     w |-> board.w, h |-> board.h],
                                    orientation)
       IN  fn_out' = [point |-> pt,
                      raw |-> IF pt.kind = "some"
                              THEN RawPieces(<<Det(pt.x1 \div 16, pt.y1 \div 16, 0, 0, 1, 90)>>,
                                             board, orientation, 1)
                              ELSE <<>>]

\* ------------------------------------------------------ move_to_rect calls

\* the characters of the move codes given to move_to_rect
MoveFiles == {"a", "b", "c", "d", "e", "f", "g", "h", "i", "("}
MoveRanks == {"0", "1", "2", "3", "4", "5", "6", "7", "8", "9", "q"}

\* codes of four characters, shorter ones, and a promotion
MoveCodes ==
    {<<f1, r1, f2, r2>> : f1 \in MoveFiles, r1 \in MoveRanks,
                          f2 \in {"a", "h", "i"}, r2 \in {"1", "8", "0", "9"}}
    \cup {<<"e", "4", f2, r2>> : f2 \in MoveFiles, r2 \in MoveRanks}
    \cup {<<>>, <<"e", "2">>, <<"e", "2", "e">>, <<"a", "7", "a", "8", "q">>}

MoveRects ==
    {[x2 |-> 0, y2 |-> 0, w |-> 128, h |-> 128],
     [x2 |-> -112, y2 |-> 66, w |-> 80, h |-> 17]}

\* the two builds of `8 - digit` on u32
Builds == {"overflow-checks", "wrapping"}

\* move_to_rect(move_str, board_rect, orientation): with a rank 9 the
\* subtraction panics in a build with overflow checks, and wraps to a row
\* that is out of range in one without
MoveToRectCall(chars, board_rect, orientation, build) ==
    /\ fn_op = ""
    /\ fn_op' = "move_to_rect"
    /\ fn_in' = [chars |-> chars, board_rect |-> board_rect,
                 orientation |-> orientation]
    /\ LET res == move_to_rect_chars(chars, board_rect, orientation)
       IN  fn_out' = IF res.kind = "overflow"
                     THEN NoPoint(IF build = "wrapping" THEN "none" ELSE "panic")
                     ELSE res

\* ------------------------------------------------- detections_to_fen calls

\* the board detections of a frame: the board, a smaller board of greater
\* confidence before it, a board too small to count
FenBoards ==
    {<<BoardDet>>, <<Det(240, 240, 320, 320, 0, 95), BoardDet>>,
     <<Det(10, 10, 0, 0, 0, 99)>>}

\* the piece detections: white kings of rows 1, 6, 1, a black king, a pawn on
\* the first king's cell, a king right of the board, a pawn on its right edge,
\* a pawn of the last row
FenPieces ==
    {Det(40, 120, 30, 30, 1, 90), Det(200, 520, 30, 30, 1, 80),
     Det(360, 120, 30, 30, 1, 70), Det(600, 40, 30, 30, 7, 90),
     Det(70, 150, 20, 20, 6, 60), Det(700, 120, 30, 30, 1, 85),
     Det(640, 40, 30, 30, 12, 90), Det(280, 600, 30, 30, 6, 90)}

\* detections_to_fen(&detections, orientation), with the raw_pieces before
\* and after the duplicate-king heuristic and the grid
DetectionsToFenCall(dets, orientation) ==
    /\ fn_op = ""
    /\ fn_op' = "fen"
    /\ fn_in' = [dets |-> dets, orientation |-> orientation]
    /\ LET found == BoardCandidates(dets) # {}
           raw == IF found
                  THEN RawPieces(dets, dets[SelectBoard(dets)], orientation, 1)
                  ELSE <<>>
           res == detections_to_fen(dets, orientation)
       IN  fn_out' = [found |-> found, raw |-> raw, fixed |-> FixKings(raw),
                      grid |-> IF found THEN GridOf(dets, orientation) ELSE EmptyGrid,
                      placement |-> res.placement, rect |-> res.rect]

\* ------------------------------------------- postprocess to detections_to_fen

\* candidates of postprocess: a board, a white king and a pawn of lower
\* confidence on one cell, a queen on the king's box, a second white king
PipelinePool ==
    {BoardDet, Det(40, 120, 30, 30, 1, 90), Det(70, 150, 20, 20, 6, 60),
     Det(44, 120, 30, 30, 2, 70), Det(200, 520, 30, 30, 1, 80)}

\* run_analysis: the candidates go through the suppression of
\* yolo::postprocess(.., 0.25, 0.45), what is kept goes to detections_to_fen
PipelineFenCall(cands, orientation) ==
    /\ fn_op = ""
    /\ fn_op' = "pipeline"
    /\ fn_in' = [cands |-> cands, orientation |-> orientation]
    /\ LET kept == non_maximum_suppression(cands, 45)
           found == BoardCandidates(kept) # {}
           raw == IF found
                  THEN RawPieces(kept, kept[SelectBoard(kept)], orientation, 1)
                  ELSE <<>>
       IN  fn_out' = [kept |-> kept, found |-> found, fixed |-> FixKings(raw),
                      placement |-> detections_to_fen(kept, orientation).placement]

\* ------------------------------------------------ detect_orientation calls

\* white and black pawns of three heights and a king
OrientPool ==
    {Det(100, 100, 30, 30, 6, 90), Det(100, 300, 30, 30, 6, 90),
     Det(100, 500, 30, 30, 6, 90), Det(200, 100, 30, 30, 12, 90),
     Det(200, 300, 30, 30, 12, 90), Det(200, 500, 30, 30, 12, 90),
     Det(300, 700, 30, 30, 1, 90)}

\* detect_orientation(&detections, board_rect)
DetectOrientationCall(dets, board_rect) ==
    /\ fn_op = ""
    /\ fn_op' = "orientation"
    /\ fn_in' = [dets |-> dets, board_rect |-> board_rect]
    /\ fn_out' = detect_orientation(dets, board_rect)

\* ====================================================== the specifications

vars == <<hist, top_moves, gres, appvars, sfvars, fnvars>>

Init == GtmInit /\ SfInit /\ AppInit /\ FnInit

\* get_top_moves of engine.rs on arbitrary engine output
GtmSpecNext ==
    \/ (\E line \in GtmLines : GtmReadLine(line)) /\ UNCHANGED <<appvars, sfvars, fnvars>>
    \/ (GtmReadEof) /\ UNCHANGED <<appvars, sfvars, fnvars>>

GtmSpec == Init /\ [][GtmSpecNext]_vars

\* the client of engine/stockfish.rs and its engine process
SfSpecNext ==
    \/ (SfNewSpawn) /\ UNCHANGED <<hist, top_moves, gres, appvars, fnvars>>
    \/ (SfNewSpawnFail) /\ UNCHANGED <<hist, top_moves, gres, appvars, fnvars>>
    \/ (SfNewUci) /\ UNCHANGED <<hist, top_moves, gres, appvars, fnvars>>
    \/ (SfNewThreads) /\ UNCHANGED <<hist, top_moves, gres, appvars, fnvars>>
    \/ (SfNewHash) /\ UNCHANGED <<hist, top_moves, gres, appvars, fnvars>>
    \/ (SfWaitTimeout) /\ UNCHANGED <<hist, top_moves, gres, appvars, fnvars>>
    \/ (\E line \in SfLines, d \in Delays : SfWaitRead(line, d)) /\ UNCHANGED <<hist, top_moves, gres, appvars, fnvars>>
    \/ (\E d \in Delays : SfWaitReadEof(d)) /\ UNCHANGED <<hist, top_moves, gres, appvars, fnvars>>
    \/ (SfWaitReadErr) /\ UNCHANGED <<hist, top_moves, gres, appvars, fnvars>>
    \/ (\E n \in 1..MaxLinesArg : SfAnalyzeCall(n)) /\ UNCHANGED <<hist, top_moves, gres, appvars, fnvars>>
    \/ (SfAnalyzeSync) /\ UNCHANGED <<hist, top_moves, gres, appvars, fnvars>>
    \/ (SfAnalyzeMultiPv) /\ UNCHANGED <<hist, top_moves, gres, appvars, fnvars>>
    \/ (SfAnalyzePosition) /\ UNCHANGED <<hist, top_moves, gres, appvars, fnvars>>
    \/ (SfAnalyzeGo) /\ UNCHANGED <<hist, top_moves, gres, appvars, fnvars>>
    \/ (SfAnalyzeTimeout) /\ UNCHANGED <<hist, top_moves, gres, appvars, fnvars>>
    \/ (\E line \in SfLines, d \in Delays : SfAnalyzeRead(line, d)) /\ UNCHANGED <<hist, top_moves, gres, appvars, fnvars>>
    \/ (\E d \in Delays : SfAnalyzeReadEof(d)) /\ UNCHANGED <<hist, top_moves, gres, appvars, fnvars>>
    \/ (SfAnalyzeReadErr) /\ UNCHANGED <<hist, top_moves, gres, appvars, fnvars>>
    \/ (SfEngineHang) /\ UNCHANGED <<hist, top_moves, gres, appvars, fnvars>>
    \/ (SfEngineExit) /\ UNCHANGED <<hist, top_moves, gres, appvars, fnvars>>

SfSpec == Init /\ [][SfSpecNext]_vars

\* the application of main.rs with the engine client of engine.rs
Next ==
    \/ (\E n \in 1..MaxMultiPv : MenuSetMultiPv(n)) /\ UNCHANGED <<hist, gres, sfvars, fnvars>>
    \/ (MenuSelectRegion) /\ UNCHANGED <<hist, gres, sfvars, fnvars>>
    \/ (SelectingDone) /\ UNCHANGED <<hist, gres, sfvars, fnvars>>
    \/ (MenuStartOverlay) /\ UNCHANGED <<hist, gres, sfvars, fnvars>>
    \/ (IoSessionOk) /\ UNCHANGED <<hist, gres, sfvars, fnvars>>
    \/ (IoSessionFail) /\ UNCHANGED <<hist, gres, sfvars, fnvars>>
    \/ (IoEngineNewSpawn) /\ UNCHANGED <<hist, gres, sfvars, fnvars>>
    \/ (IoEngineNewSpawnFail) /\ UNCHANGED <<hist, gres, sfvars, fnvars>>
    \/ (IoEngineUpdate) /\ UNCHANGED <<hist, gres, sfvars, fnvars>>
    \/ (IoSetOpt) /\ UNCHANGED <<hist, gres, sfvars, fnvars>>
    \/ (HsSendUci) /\ UNCHANGED <<hist, gres, sfvars, fnvars>>
    \/ (\E line \in AppLines : HsReadUciok(line)) /\ UNCHANGED <<hist, gres, sfvars, fnvars>>
    \/ (HsSendIsready) /\ UNCHANGED <<hist, gres, sfvars, fnvars>>
    \/ (\E line \in AppLines : HsReadReadyok(line)) /\ UNCHANGED <<hist, gres, sfvars, fnvars>>
    \/ (HsReadEof) /\ UNCHANGED <<hist, gres, sfvars, fnvars>>
    \/ (HsReadErr) /\ UNCHANGED <<hist, gres, sfvars, fnvars>>
    \/ (OverlayInsert) /\ UNCHANGED <<hist, gres, sfvars, fnvars>>
    \/ (OverlayPaint) /\ UNCHANGED <<hist, gres, sfvars, fnvars>>
    \/ (\E cause \in SkipCauses : RaSkip(cause)) /\ UNCHANGED <<hist, gres, sfvars, fnvars>>
    \/ (\E dets \in DetScenarios, img \in ImgSizes : RaBegin(dets, img)) /\ UNCHANGED <<hist, gres, sfvars, fnvars>>
    \/ (\E shape \in OutputShapes, img \in ImgSizes : RaOutputPanics(shape, img)) /\ UNCHANGED <<hist, gres, sfvars, fnvars>>
    \/ (RaSendPosition) /\ UNCHANGED <<hist, gres, sfvars, fnvars>>
    \/ (RaSendGo) /\ UNCHANGED <<hist, gres, sfvars, fnvars>>
    \/ (\E line \in AppLines : RaReadLine(line)) /\ UNCHANGED <<hist, gres, sfvars, fnvars>>
    \/ (RaReadEof) /\ UNCHANGED <<hist, gres, sfvars, fnvars>>
    \/ (RaReadErr) /\ UNCHANGED <<hist, gres, sfvars, fnvars>>
    \/ (RestartSpawnOk) /\ UNCHANGED <<hist, gres, sfvars, fnvars>>
    \/ (RestartSpawnFail) /\ UNCHANGED <<hist, gres, sfvars, fnvars>>
    \/ (RaSetOpt) /\ UNCHANGED <<hist, gres, sfvars, fnvars>>
    \/ (RaBlack) /\ UNCHANGED <<hist, gres, sfvars, fnvars>>
    \/ (RaReturn) /\ UNCHANGED <<hist, gres, sfvars, fnvars>>
    \/ (\E p \in Held : EngineHang(p)) /\ UNCHANGED <<hist, gres, sfvars, fnvars>>
    \/ (\E p \in Held : EngineExit(p)) /\ UNCHANGED <<hist, gres, sfvars, fnvars>>

Spec == Init /\ [][Next]_vars

\* the pure functions of yolo.rs, chess_logic.rs and vision/board.rs
FnSpecNext ==
    \/ (fn_op = "" /\ \E dets \in SeqsUpTo(NmsPool, MaxDets), thr \in IouThresholds : NmsCall(dets, thr)) /\ UNCHANGED <<hist, top_moves, gres, appvars, sfvars>>
    \/ (fn_op = "" /\ \E tensor \in SeqsUpTo(AnchorPool, MaxAnchors), conf \in ConfThresholds, iou \in IouThresholds : PostprocessCall(tensor, conf, iou)) /\ UNCHANGED <<hist, top_moves, gres, appvars, sfvars>>
    \/ (fn_op = "" /\ \E dets \in SeqsUpTo(BoardPool, MaxDets), show_white_moves \in BOOLEAN : BoardFenCall(dets, show_white_moves)) /\ UNCHANGED <<hist, top_moves, gres, appvars, sfvars>>
    \/ (fn_op = "" /\ \E row \in 0..7, col \in 0..7, board \in RtBoards, orientation \in {WhiteBottom, BlackBottom} : RoundTripCall(row, col, board, orientation)) /\ UNCHANGED <<hist, top_moves, gres, appvars, sfvars>>
    \/ (fn_op = "" /\ \E chars \in MoveCodes, board_rect \in MoveRects, orientation \in {WhiteBottom, BlackBottom}, build \in Builds : MoveToRectCall(chars, board_rect, orientation, build)) /\ UNCHANGED <<hist, top_moves, gres, appvars, sfvars>>
    \/ (fn_op = "" /\ \E boards \in FenBoards, pieces \in SeqsUpTo(FenPieces, MaxDets), orientation \in {WhiteBottom, BlackBottom} : DetectionsToFenCall(boards \o pieces, orientation)) /\ UNCHANGED <<hist, top_moves, gres, appvars, sfvars>>
    \/ (fn_op = "" /\ \E dets \in SeqsUpTo(OrientPool, MaxDets), board_rect \in MoveRects : DetectOrientationCall(dets, board_rect)) /\ UNCHANGED <<hist, top_moves, gres, appvars, sfvars>>
    \/ (fn_op = "" /\ \E cands \in SeqsUpTo(PipelinePool, MaxDets), orientation \in {WhiteBottom, BlackBottom} : PipelineFenCall(cands, orientation)) /\ UNCHANGED <<hist, top_moves, gres, appvars, sfvars>>
    \/ (fn_op = "" /\ \E dets \in SeqsUpTo(DetectorPool, MaxDets) : DetectorNmsCall(dets)) /\ UNCHANGED <<hist, top_moves, gres, appvars, sfvars>>

FnSpecInit == Init /\ ~region.some /\ multipv = 1

FnSpec == FnSpecInit /\ [][FnSpecNext]_vars

\* ------------------------------------------------------ properties of Spec

\* the engine commands of a log
EngineCommands == {"send:setoption", "send:position", "send:go"}

\* C1: a position is sent to the engine only when the reconstructed board
\* holds exactly one white king and exactly one black king: in a cycle whose
\* placement fails that test no position and no go command is sent.
C1_PositionOnlyWithBothKings ==
    \A i \in 1..Len(log) :
        log[i] \in {"send:position", "send:go"} => KingsOk(cyc.placement)

\* C2: when run_analysis is about to return from a failed cycle (the king
\* test failed, a query returned an error or no move), the arrows the overlay
\* will paint are those it painted before the cycle began.
C2_FailedCycleKeepsArrows ==
    (pc = "ra_end" /\ cyc.failed) => Shown(last_arrows) = cyc.arrows0

\* C3: after a query of either side returned an error, no position and no go
\* command is written to that session before restart has been called on it.
C3_NoCommandBeforeRestart ==
    [][(/\ Len(log') = Len(log) + 1
        /\ log'[Len(log')] \in {"send:position", "sendfail:position",
                                "send:go", "sendfail:go"})
       => ~faulted]_vars

\* C4: once restart has failed in a cycle, no setoption, position or go
\* command is sent in the rest of that cycle.
C4_NoCommandAfterFailedRestart ==
    \A i \in 1..Len(log) : \A j \in 1..Len(log) :
        (i < j /\ log[i] = "restart:fail") => log[j] \notin EngineCommands

\* C5: a wait on engine output can always end: while the client waits for a
\* line of an engine that is silent and keeps its stdout open, some step of
\* the client (a timeout, an error return) is possible.
C5_WaitCanEnd ==
    (/\ pc \in {"hs_wait_uciok", "hs_wait_readyok", "ra_read"}
     /\ procs[Cur] = "hung")
    => ENABLED AppNext

\* engine.rs side of C10: Stockfish::new returns Ok only after exactly uci,
\* uciok, isready, readyok, and the first setoption follows it
NewHandshakeLemma ==
    pc = "io_setopt"
    => log = <<"send:uci", "read:uciok", "send:isready", "read:readyok", "new:ok">>

\* C11: a go command is written only to a process that was earlier sent
\* setoption MultiPV with the line count configured now, also after a restart.
C11_GoAfterMultiPv ==
    [][(/\ Len(log') = Len(log) + 1
        /\ log'[Len(log')] = "send:go")
       => mpv = multipv]_vars

\* go reached the process a successful restart spawned in this cycle
C11_Witness ==
    /\ pc = "ra_read"
    /\ side = "black"
    /\ engine = 2
    /\ mpv = multipv
    /\ \E i \in 1..Len(log) : log[i] = "restart:ok"
    /\ log[Len(log)] = "send:go"

\* the engine processes the application spawned that are running
Alive == {p \in 1..MaxProcs : procs[p] \in {"run", "hung"}}

\* C12: at most one engine process the application spawned is alive, and it
\* is the one the session's handles refer to.
C12_OneLiveEngine ==
    /\ Cardinality(Alive) <= 1
    /\ Alive \subseteq Held

\* C13: rendering does not wait for the analysis: while a cycle's engine
\* query is in progress, an overlay frame can paint.
C13_PaintDuringAnalysis ==
    (cyc.active /\ pc \in {"ra_position", "ra_go", "ra_read"})
    => ENABLED OverlayPaint

\* C18: a detector output that is not of shape [1, 4 + classes, anchors] ends
\* the frame's analysis only; the application goes on to the next cycle.
C18_MalformedOutputAbortsFrameOnly == pc # "panicked"

\* the arrow of a move under an orientation and a board rectangle, scaled
\* as analyze_and_draw scales it
ArrowOf(m, rect, orientation, color) ==
    LET pt == move_to_rect(m, rect, orientation)
    IN  [x1 |-> 16 * region.x + pt.x1 * cyc.sx, y1 |-> 16 * region.y + pt.y1 * cyc.sy,
         x2 |-> 16 * region.x + pt.x2 * cyc.sx, y2 |-> 16 * region.y + pt.y2 * cyc.sy,
         color |-> color]

\* what run_analysis computes from the detections of a frame: the orientation
\* from the first pass, the placement and the rectangle from the second
CycleValues ==
    {LET o == detect_orientation(dets, detections_to_fen(dets, WhiteBottom).rect)
         fen == detections_to_fen(dets, o)
     IN  [orientation |-> o, placement |-> fen.placement, rect |-> fen.rect] :
        dets \in DetScenarios}

\* C26: a cycle begins with the orientation of its own detections and with
\* the placement and the board rectangle of these detections under that
\* orientation; the three stay as they are until the cycle ends; and every
\* arrow pushed during the cycle, green or red, is a move mapped by
\* move_to_rect with that orientation and that rectangle.
C26_CycleOrientationAndRect ==
    [][/\ (~cyc.active /\ cyc'.active)
          => /\ [orientation |-> cyc'.orientation, placement |-> cyc'.placement,
                 rect |-> cyc'.rect] \in CycleValues
             /\ last_arrows' = [some |-> TRUE, v |-> <<>>]
       /\ (cyc.active /\ cyc'.active)
          => /\ cyc'.orientation = cyc.orientation
             /\ cyc'.rect = cyc.rect
             /\ cyc'.placement = cyc.placement
       /\ (cyc.active /\ last_arrows' # last_arrows)
          => /\ Len(last_arrows'.v) > Len(last_arrows.v)
             /\ SubSeq(last_arrows'.v, 1, Len(last_arrows.v)) = last_arrows.v
             /\ \A k \in (Len(last_arrows.v) + 1)..Len(last_arrows'.v) :
                    \E m \in {"e2e4", "g1f3"}, color \in {"GREEN", "RED"} :
                        /\ move_to_rect(m, cyc.rect, cyc.orientation).kind = "some"
                        /\ last_arrows'.v[k]
                             = ArrowOf(m, cyc.rect, cyc.orientation, color)
      ]_vars

\* the board seen from Black's side, the black query answered after the
\* white one: a green and a red arrow
C26_Witness ==
    /\ cyc.active
    /\ cyc.placement = detections_to_fen(DetsFlipped, BlackBottom).placement
    /\ cyc.orientation = BlackBottom
    /\ pc = "ra_end"
    /\ Len(last_arrows.v) = 2
    /\ last_arrows.v[1] = ArrowOf("g1f3", cyc.rect, BlackBottom, "GREEN")
    /\ last_arrows.v[2].color = "RED"

\* C31: a run_analysis that returns early (no region, no monitor, a failed
\* capture, an empty crop, a failed inference, no "output0", a tensor that
\* cannot be extracted) sends no command to the engine, touches no engine
\* process and leaves last_arrows as it was.
C31_EarlyReturnKeepsArrows ==
    [][(cyc'.skip # "" /\ (cyc'.skip # cyc.skip \/ painted' # painted))
          => /\ last_arrows' = last_arrows
             /\ log' = log /\ mpv' = mpv
             /\ procs' = procs /\ engine' = engine
             /\ pc' = "frame" /\ ui' = "Overlay"
      ]_vars

\* the capture failed in a frame that follows a cycle which stored arrows:
\* the arrows are still stored and are the ones painted
C31_Witness ==
    /\ cyc.skip = "capture_failed"
    /\ last_arrows.some /\ Len(last_arrows.v) > 0
    /\ painted = last_arrows.v
    /\ pc = "frame" /\ ui = "Overlay"

\* C35: whenever the UI state is Overlay a region is configured, the detector
\* session exists and the engine handle exists; and run_analysis runs, to an
\* early return or into a cycle, in the Overlay state only.
C35_OverlayHasRegionSessionEngine ==
    /\ ui = "Overlay" => region.some /\ session /\ engine # 0
    /\ (cyc.active \/ cyc.skip # "") => ui = "Overlay"

\* run_analysis is executing the black query in the overlay
C35_Witness ==
    /\ ui = "Overlay" /\ cyc.active /\ side = "black"
    /\ region.some /\ session /\ engine # 0

\* ---------------------------------------------------- properties of FnSpec

\* C14: no two detections of the list non_maximum_suppression returns have
\* an IoU greater than the threshold, whatever their classes.
C14_KeptPairsBelowThreshold ==
    fn_op = "nms"
    => \A i \in 1..Len(fn_out) : \A j \in 1..Len(fn_out) :
           i # j => ~IouExceeds(fn_out[i], fn_out[j], fn_in.thr)

\* of two overlapping detections and one apart, two came out
C14_Witness ==
    /\ fn_op = "nms"
    /\ fn_in.thr = 45
    /\ fn_in.dets = <<Det(12, 10, 10, 10, 1, 70), Det(40, 40, 10, 10, 1, 70),
                      Det(10, 10, 10, 10, 1, 90)>>
    /\ fn_out = <<Det(10, 10, 10, 10, 1, 90), Det(40, 40, 10, 10, 1, 70)>>

\* the elements of a sequence
Elems(q) == {q[i] : i \in 1..Len(q)}

\* C15 amended: the list returned holds input detections only; of a pair
\* whose IoU exceeds the threshold and whose higher-confidence detection is
\* retained, the lower-confidence one is removed; and a detection is removed
\* only when a retained detection of no lower confidence has an IoU above the
\* threshold with it.
C15_RemovedByRetainedHigher ==
    fn_op = "nms"
    => LET In == Elems(fn_in.dets)
           Out == Elems(fn_out)
       IN  /\ Out \subseteq In
           /\ \A a \in Out : \A b \in In :
                  (b.confidence < a.confidence /\ IouExceeds(a, b, fn_in.thr))
                  => b \notin Out
           /\ \A b \in In \ Out : \E a \in Out :
                  a.confidence >= b.confidence /\ IouExceeds(a, b, fn_in.thr)

\* a chain: the middle detection is removed by the first, the last is kept
C15_Witness ==
    /\ fn_op = "nms"
    /\ fn_in.thr = 45
    /\ fn_in.dets = <<Det(14, 10, 10, 10, 1, 50), Det(12, 10, 10, 10, 1, 70),
                      Det(10, 10, 10, 10, 1, 90)>>
    /\ fn_out = <<Det(10, 10, 10, 10, 1, 90), Det(14, 10, 10, 10, 1, 50)>>

\* C15 as stated: of every pair of input detections whose IoU exceeds the
\* threshold, the higher-confidence one is retained and the lower-confidence
\* one is removed.
C15_EveryPairLosesItsLower ==
    fn_op = "nms"
    => \A a \in Elems(fn_in.dets) : \A b \in Elems(fn_in.dets) :
           (b.confidence < a.confidence /\ IouExceeds(a, b, fn_in.thr))
           => (a \in Elems(fn_out) /\ b \notin Elems(fn_out))

\* the detections with their class ids made equal
SameClass(dets) == [i \in 1..Len(dets) |-> [dets[i] EXCEPT !.class_id = 0]]

\* C16: suppression ignores the class ids: the positions kept are those kept
\* when all the detections have one class id, and what is returned are the
\* detections at these positions of the list sorted by confidence.
C16_ClassBlindSuppression ==
    fn_op = "nms"
    => /\ KeptPositions(fn_in.dets, fn_in.thr)
              = KeptPositions(SameClass(fn_in.dets), fn_in.thr)
       /\ fn_out = SubSeqAt(SortByConf(fn_in.dets),
                            KeptPositions(SameClass(fn_in.dets), fn_in.thr))

\* a detection removed by a retained one of another class
C16_Witness ==
    /\ fn_op = "nms"
    /\ fn_in.thr = 45
    /\ fn_in.dets = <<Det(12, 10, 10, 10, 7, 70), Det(10, 10, 10, 10, 1, 90)>>
    /\ fn_out = <<Det(10, 10, 10, 10, 1, 90)>>

\* the class scores of an anchor and the greatest of them
ClassScores(anchor) == {anchor[c] : c \in 5..Len(anchor)}

MaxScore(anchor) == CHOOSE m \in ClassScores(anchor) : \A x \in ClassScores(anchor) : x <= m

\* the anchors whose greatest class score exceeds the threshold
Passing(tensor, conf) == {i \in 1..Len(tensor) : MaxScore(tensor[i]) > conf}

\* C17: postprocess makes a candidate of an anchor exactly when the greatest
\* class score of the anchor is greater than the confidence threshold; the
\* candidates follow the anchors' order, each with the anchor's four box
\* channels, the greatest score as confidence and the first class index that
\* has this score as class_id.
C17_CandidateIffMaxScoreAboveThreshold ==
    fn_op = "postprocess"
    => LET T == fn_in.tensor
           P == Passing(T, fn_in.conf)
           C == fn_out.candidates
       IN  /\ Len(C) = Cardinality(P)
           /\ \A i \in P :
                  LET k == Cardinality({j \in P : j <= i})
                  IN  /\ C[k].x = T[i][1] /\ C[k].y = T[i][2]
                      /\ C[k].w = T[i][3] /\ C[k].h = T[i][4]
                      /\ C[k].confidence = MaxScore(T[i])
                      /\ T[i][C[k].class_id + 5] = MaxScore(T[i])
                      /\ \A c \in 5..(C[k].class_id + 4) : T[i][c] < MaxScore(T[i])

\* one anchor passes with its second class, one whose greatest score equals
\* the threshold does not
C17_Witness ==
    /\ fn_op = "postprocess"
    /\ fn_in.conf = 25
    /\ fn_in.tensor = <<(<<10, 10, 10, 10, 25, 80>>), (<<12, 10, 10, 10, 0, 25>>)>>
    /\ fn_out.candidates = <<Det(10, 10, 10, 10, 1, 80)>>

\* the placement field of a position string: the characters before the
\* first space
PlacementField(fen) ==
    LET sp == {i \in 1..Len(fen) : fen[i] = " "}
    IN  IF sp = {} THEN fen
        ELSE SubSeq(fen, 1, (CHOOSE i \in sp : \A j \in sp : i <= j) - 1)

\* C19: vision/board.rs detections_to_fen returns None exactly when the
\* white-king detections or the black-king detections of its input are not
\* exactly one; with one of each it returns a non-empty string whose
\* placement field has 8 ranks.
C19_NoneIffKingCountNotOne ==
    fn_op = "board_fen"
    => LET dets == fn_in.dets
           wk == Cardinality({i \in 1..Len(dets) : dets[i].class_id = 1})
           bk == Cardinality({i \in 1..Len(dets) : dets[i].class_id = 7})
       IN  /\ ~fn_out.some <=> (wk # 1 \/ bk # 1)
           /\ (wk = 1 /\ bk = 1)
              => /\ fn_out.fen # <<>>
                 /\ CountChar(PlacementField(fn_out.fen), "/") = 7

\* one king of each colour detected, the black one left of the board: a
\* position string without a black king
C19_Witness ==
    /\ fn_op = "board_fen"
    /\ fn_in.dets = <<Det(40, 40, 80, 80, 0, 90), Det(5, 5, 8, 8, 1, 90),
                      Det(-5, 5, 8, 8, 7, 80)>>
    /\ fn_in.show_white_moves
    /\ fn_out.some
    /\ PlacementField(fn_out.fen)
         = <<"K", "7", "/", "8", "/", "8", "/", "8", "/", "8", "/", "8", "/", "8", "/", "8">>

\* C32: a position string returned by vision/board.rs detections_to_fen holds
\* exactly one white king and exactly one black king in its placement field.
C32_EmittedBoardHasBothKings ==
    (fn_op = "board_fen" /\ fn_out.some)
    => /\ CountChar(PlacementField(fn_out.fen), "K") = 1
       /\ CountChar(PlacementField(fn_out.fen), "k") = 1

\* C20: for every square of the grid, either orientation and a board of
\* positive size, the point move_to_rect computes for the square is a cell
\* centre, and the grid-cell mapping of detections_to_fen takes it back to
\* the square.
C20_GridRoundTrip ==
    fn_op = "round_trip"
    => /\ fn_out.point.kind = "some"
       /\ fn_out.point.x1 % 16 = 0 /\ fn_out.point.y1 % 16 = 0
       /\ Len(fn_out.raw) = 1
       /\ fn_out.raw[1].row = fn_in.row
       /\ fn_out.raw[1].col = fn_in.col

\* b3 seen from Black's side on the board of unequal sides: the point is in
\* the cell of visual column 6 and row 2
C20_Witness ==
    /\ fn_op = "round_trip"
    /\ fn_in.orientation = BlackBottom
    /\ fn_in.board = Det(100, 60, 16, 48, 0, 90)
    /\ fn_in.row = 5 /\ fn_in.col = 1
    /\ fn_out.point.x1 = 16 * 105 /\ fn_out.point.y1 = 16 * 51
    /\ fn_out.raw = <<[row |-> 5, col |-> 1, class_id |-> 1]>>

\* the column of a file letter and the row of a rank digit: file a is
\* column 0, rank 8 is row 0
FileCol(c) == CHOOSE i \in 0..7 : <<"a", "b", "c", "d", "e", "f", "g", "h">>[i + 1] = c

RankRow(c) == CHOOSE i \in 0..7 : <<"8", "7", "6", "5", "4", "3", "2", "1">>[i + 1] = c

\* a move code whose first four characters are a file in a..h, a rank in
\* 1..8, a file and a rank
WellFormed(chars) ==
    /\ Len(chars) >= 4
    /\ \A i \in {1, 3} : chars[i] \in {"a", "b", "c", "d", "e", "f", "g", "h"}
    /\ \A i \in {2, 4} : chars[i] \in {"1", "2", "3", "4", "5", "6", "7", "8"}

\* C21: for a move code with files in a..h and ranks in 1..8, move_to_rect
\* returns the centres of the cells (file - 'a', 8 - rank) under WhiteBottom
\* and (7 - col, 7 - row) under BlackBottom: 16 x = 16 rect.x + (2 col + 1) w
\* and 16 y = 16 rect.y + (2 row + 1) h.
C21_CellCentres ==
    (fn_op = "move_to_rect" /\ WellFormed(fn_in.chars))
    => LET flip == fn_in.orientation = BlackBottom
           r == fn_in.board_rect
           c1 == IF flip THEN 7 - FileCol(fn_in.chars[1]) ELSE FileCol(fn_in.chars[1])
           r1 == IF flip THEN 7 - RankRow(fn_in.chars[2]) ELSE RankRow(fn_in.chars[2])
           c2 == IF flip THEN 7 - FileCol(fn_in.chars[3]) ELSE FileCol(fn_in.chars[3])
           r2 == IF flip THEN 7 - RankRow(fn_in.chars[4]) ELSE RankRow(fn_in.chars[4])
       IN  fn_out = [kind |-> "some",
                     x1 |-> 8 * r.x2 + (2 * c1 + 1) * r.w,
                     y1 |-> 8 * r.y2 + (2 * r1 + 1) * r.h,
                     x2 |-> 8 * r.x2 + (2 * c2 + 1) * r.w,
                     y2 |-> 8 * r.y2 + (2 * r2 + 1) * r.h]

\* b7a8 seen from Black's side: from the cell of column 6 and row 6 to the
\* cell of column 7 and row 7
C21_Witness ==
    /\ fn_op = "move_to_rect"
    /\ fn_in.chars = <<"b", "7", "a", "8">>
    /\ fn_in.orientation = BlackBottom
    /\ fn_in.board_rect = [x2 |-> 0, y2 |-> 0, w |-> 128, h |-> 128]
    /\ fn_out = [kind |-> "some", x1 |-> 13 * 128, y1 |-> 13 * 128,
                 x2 |-> 15 * 128, y2 |-> 15 * 128]

\* C22: for a move code that is not well formed, move_to_rect returns None
\* under either orientation: it neither fails nor returns a point.
C22_MalformedMoveGivesNone ==
    (fn_op = "move_to_rect" /\ ~WellFormed(fn_in.chars)) => fn_out.kind = "none"

\* the raw pieces of a class
OfClass(raw, c) == {i \in 1..Len(raw) : raw[i].class_id = c}

\* C23: the duplicate-king heuristic changes a class exactly when two white
\* kings and no black king lie on the board.
C23_HeuristicOnlyForExactlyTwo ==
    fn_op = "fen"
    => (fn_out.fixed # fn_out.raw
        <=> (Cardinality(OfClass(fn_out.raw, 1)) = 2 /\ OfClass(fn_out.raw, 7) = {}))

\* exactly two white kings of different rows on the board and no black king
TwoWhiteKings(raw) ==
    /\ Cardinality(OfClass(raw, 1)) = 2
    /\ OfClass(raw, 7) = {}
    /\ \A i, j \in OfClass(raw, 1) : i # j => raw[i].row # raw[j].row

\* C24 amended: with exactly two white kings of different rows on the board,
\* no black king, and no other detection on a cell of the two, the grid has a
\* black king on the cell of the king of the smaller row and a white king on
\* the cell of the other, under either orientation.
C24_SmallerRowBecomesBlack ==
    (/\ fn_op = "fen"
     /\ TwoWhiteKings(fn_out.raw)
     /\ \A i \in OfClass(fn_out.raw, 1) : \A j \in 1..Len(fn_out.raw) :
            (j # i /\ fn_out.raw[j].row = fn_out.raw[i].row
                   /\ fn_out.raw[j].col = fn_out.raw[i].col) => FALSE)
    => \A i, j \in OfClass(fn_out.raw, 1) :
           fn_out.raw[i].row < fn_out.raw[j].row
           => /\ fn_out.grid[fn_out.raw[i].row][fn_out.raw[i].col] = "k"
              /\ fn_out.grid[fn_out.raw[j].row][fn_out.raw[j].col] = "K"

\* white kings of rows 1 and 6 seen from Black's side: they are rows 6 and
\* 1 of the grid, and the one detected second becomes the black king
C24_Witness ==
    /\ fn_op = "fen"
    /\ fn_in.orientation = BlackBottom
    /\ fn_in.dets = <<BoardDet, Det(40, 120, 30, 30, 1, 90), Det(200, 520, 30, 30, 1, 80)>>
    /\ fn_out.raw = <<[row |-> 6, col |-> 7, class_id |-> 1],
                      [row |-> 1, col |-> 5, class_id |-> 1]>>
    /\ fn_out.grid[1][5] = "k"
    /\ fn_out.grid[6][7] = "K"

\* C24: with two white kings of different rows on the board and no black
\* king, the grid has a black king on the cell of the king of the smaller
\* row and a white king on the cell of the other.
C24_TwoKingsAlwaysOnGrid ==
    (fn_op = "fen" /\ TwoWhiteKings(fn_out.raw))
    => \A i, j \in OfClass(fn_out.raw, 1) :
           fn_out.raw[i].row < fn_out.raw[j].row
           => /\ fn_out.grid[fn_out.raw[i].row][fn_out.raw[i].col] = "k"
              /\ fn_out.grid[fn_out.raw[j].row][fn_out.raw[j].col] = "K"

\* the detections that are no board and whose centre is within the bounds
\* of the selected board
OnBoard(dets) ==
    LET b == Bounds2(dets[SelectBoard(dets)])
    IN  {i \in 1..Len(dets) :
            /\ dets[i].class_id # 0
            /\ 2 * dets[i].x >= b.x1 /\ 2 * dets[i].x <= b.x2
            /\ 2 * dets[i].y >= b.y1 /\ 2 * dets[i].y <= b.y2}

\* the centre of detection d lies in the cell of visual column vc and row vr
\* of the board
InCell(d, board, vc, vr) ==
    LET b == Bounds2(board)
    IN  /\ vc * board.w <= 4 * (2 * d.x - b.x1) /\ 4 * (2 * d.x - b.x1) < (vc + 1) * board.w
        /\ vr * board.h <= 4 * (2 * d.y - b.y1) /\ 4 * (2 * d.y - b.y1) < (vr + 1) * board.h

RECURSIVE Restrict(_, _, _)
\* the detections of dets from k on that are boards or members of S
Restrict(dets, S, k) ==
    IF k > Len(dets) THEN <<>>
    ELSE IF dets[k].class_id = 0 \/ k \in S
         THEN <<dets[k]>> \o Restrict(dets, S, k + 1)
         ELSE Restrict(dets, S, k + 1)

\* C27: every piece detections_to_fen takes for the grid has a row and a
\* column in 0..7 and comes from a non-board detection whose centre lies
\* within the selected board's bounds, in the cell the orientation maps to
\* that square; the detections outside the bounds change nothing in the
\* placement.
C27_OnlyDetectionsOnTheBoard ==
    (fn_op = "fen" /\ fn_out.found)
    => LET dets == fn_in.dets
           board == dets[SelectBoard(dets)]
           flip == fn_in.orientation = BlackBottom
       IN  /\ \A k \in 1..Len(fn_out.raw) :
                  LET p == fn_out.raw[k]
                  IN  /\ p.row \in 0..7 /\ p.col \in 0..7
                      /\ \E i \in OnBoard(dets) :
                             /\ dets[i].class_id = p.class_id
                             /\ InCell(dets[i], board,
                                       IF flip THEN 7 - p.col ELSE p.col,
                                       IF flip THEN 7 - p.row ELSE p.row)
           /\ Len(fn_out.raw) <= Cardinality(OnBoard(dets))
           /\ fn_out.placement
                = detections_to_fen(Restrict(dets, OnBoard(dets), 1), fn_in.orientation).placement

\* a black king on the board, a white king right of it and a pawn on its
\* right edge: the black king alone is placed
C27_Witness ==
    /\ fn_op = "fen"
    /\ fn_in.orientation = WhiteBottom
    /\ fn_in.dets = <<BoardDet, Det(700, 120, 30, 30, 1, 85), Det(600, 40, 30, 30, 7, 90),
                      Det(640, 40, 30, 30, 12, 90)>>
    /\ fn_out.raw = <<[row |-> 0, col |-> 7, class_id |-> 7]>>
    /\ fn_out.placement
         = <<"7", "k", "/", "8", "/", "8", "/", "8", "/", "8", "/", "8", "/", "8", "/", "8">>

RECURSIVE Fields(_, _)
\* the fields of a placement that '/' separates, cur being the field begun
Fields(q, cur) ==
    IF q = <<>> THEN <<cur>>
    ELSE IF Head(q) = "/" THEN <<cur>> \o Fields(Tail(q), <<>>)
         ELSE Fields(Tail(q), Append(cur, Head(q)))

Digits == <<"1", "2", "3", "4", "5", "6", "7", "8", "9">>

IsDigit(c) == \E n \in 1..9 : Digits[n] = c

RECURSIVE Expand(_)
\* the cells a field stands for: a digit is that many empty cells
Expand(field) ==
    IF field = <<>> THEN <<>>
    ELSE IF IsDigit(Head(field))
         THEN [i \in 1..(CHOOSE n \in 1..9 : Digits[n] = Head(field)) |-> ""]
              \o Expand(Tail(field))
         ELSE <<Head(field)>> \o Expand(Tail(field))

\* C28: the placement of detections_to_fen has 8 fields joined by '/'; each
\* field stands for 8 squares, has no two adjacent digits, and field k is
\* row k - 1 of the grid.
C28_PlacementShape ==
    fn_op = "fen"
    => LET f == Fields(fn_out.placement, <<>>)
       IN  /\ Len(f) = 8
           /\ \A k \in 1..Len(f) :
                  /\ Len(Expand(f[k])) = 8
                  /\ \A i \in 1..(Len(f[k]) - 1) : ~(IsDigit(f[k][i]) /\ IsDigit(f[k][i + 1]))
                  /\ \A c \in 0..7 : Expand(f[k])[c + 1] = fn_out.grid[k - 1][c]

\* a black king on h8 and a white pawn on d1: the first field ends with the
\* king, the last has the pawn between two counts
C28_Witness ==
    /\ fn_op = "fen"
    /\ fn_in.orientation = WhiteBottom
    /\ fn_in.dets = <<BoardDet, Det(600, 40, 30, 30, 7, 90), Det(280, 600, 30, 30, 6, 90)>>
    /\ fn_out.placement
         = <<"7", "k", "/", "8", "/", "8", "/", "8", "/", "8", "/", "8", "/", "8", "/",
             "3", "P", "4">>

\* the sum, over the pairs of a detection of class c and one of class d,
\* of the difference of their vertical centres: its sign is the sign of the
\* difference of the two averages
RECURSIVE PairSum(_, _, _, _)
PairSum(dets, c, d, n) ==
    IF n > Len(dets) * Len(dets) THEN 0
    ELSE LET i == ((n - 1) \div Len(dets)) + 1
             j == ((n - 1) % Len(dets)) + 1
         IN  (IF dets[i].class_id = c /\ dets[j].class_id = d
              THEN dets[i].y - dets[j].y ELSE 0)
             + PairSum(dets, c, d, n + 1)

\* C25: detect_orientation returns WhiteBottom when there is no white pawn
\* or no black pawn; otherwise WhiteBottom when the white pawns' average
\* vertical centre is greater than the black pawns' and BlackBottom in every
\* other case; the board rectangle does not matter.
C25_OrientationFromPawnAverages ==
    fn_op = "orientation"
    => LET dets == fn_in.dets
           whites == {i \in 1..Len(dets) : dets[i].class_id = 6}
           blacks == {i \in 1..Len(dets) : dets[i].class_id = 12}
       IN  /\ fn_out \in {WhiteBottom, BlackBottom}
           /\ (whites = {} \/ blacks = {}) => fn_out = WhiteBottom
           /\ (whites # {} /\ blacks # {})
              => (fn_out = WhiteBottom <=> PairSum(dets, 6, 12, 1) > 0)
           /\ \A r \in MoveRects : detect_orientation(dets, r) = fn_out

\* two white pawns at 100 and 500 and a black pawn at 300: equal averages,
\* BlackBottom
C25_Witness ==
    /\ fn_op = "orientation"
    /\ fn_in.dets = <<Det(100, 100, 30, 30, 6, 90), Det(200, 300, 30, 30, 12, 90),
                      Det(100, 500, 30, 30, 6, 90)>>
    /\ fn_out = BlackBottom


\* the visual column and row of the cell of the selected board that holds
\* the centre of detection i
VCol(dets, i) ==
    (4 * (2 * dets[i].x - Bounds2(dets[SelectBoard(dets)]).x1)) \div dets[SelectBoard(dets)].w

VRow(dets, i) ==
    (4 * (2 * dets[i].y - Bounds2(dets[SelectBoard(dets)]).y1)) \div dets[SelectBoard(dets)].h

\* the detections of dets that detections_to_fen takes for the grid: no
\* board, the centre in one of the 64 cells of the selected board
Placed(dets) ==
    {i \in OnBoard(dets) : VCol(dets, i) < 8 /\ VRow(dets, i) < 8}

\* the detections of dets taken for the cell of detection i
CellDets(dets, i) ==
    {j \in Placed(dets) : VCol(dets, j) = VCol(dets, i) /\ VRow(dets, j) = VRow(dets, i)}

\* the greatest member of a non-empty set of indices
Last(S) == CHOOSE i \in S : \A j \in S : j <= i

\* every cell that detections of dets map to shows, in the placement, the
\* piece of the last of them in the order of dets, with the class it has
\* after the duplicate-king heuristic
CellHoldsLast(dets, orientation, fixed, placement) ==
    LET flip == orientation = BlackBottom
        f == Fields(placement, <<>>)
        P == Placed(dets)
    IN  /\ Len(fixed) = Cardinality(P)
        /\ \A i \in P :
               LET last == Last(CellDets(dets, i))
                   k == Cardinality({j \in P : j <= last})
                   row == IF flip THEN 7 - VRow(dets, i) ELSE VRow(dets, i)
                   col == IF flip THEN 7 - VCol(dets, i) ELSE VCol(dets, i)
               IN  Expand(f[row + 1])[col + 1] = class_id_to_fen(fixed[k].class_id)

\* C33: a cell that several detections on the board map to holds, in the
\* placement, the piece of the one that is last in the order of the list
\* given to detections_to_fen, after the duplicate-king heuristic; in the
\* list the suppression returns this is a detection of the lowest confidence
\* among those of the cell.
C33_LastDetectionOfCellWins ==
    /\ (fn_op = "fen" /\ fn_out.found)
       => CellHoldsLast(fn_in.dets, fn_in.orientation, fn_out.fixed, fn_out.placement)
    /\ (fn_op = "pipeline" /\ fn_out.found)
       => /\ CellHoldsLast(fn_out.kept, fn_in.orientation, fn_out.fixed, fn_out.placement)
          /\ \A i \in Placed(fn_out.kept) :
                 fn_out.kept[Last(CellDets(fn_out.kept, i))].confidence
                     <= fn_out.kept[i].confidence

\* the pawn is the first candidate and the last detection kept: the cell of
\* the king and the pawn shows the pawn
C33_Witness ==
    /\ fn_op = "pipeline"
    /\ fn_in.orientation = WhiteBottom
    /\ fn_in.cands = <<Det(70, 150, 20, 20, 6, 60), BoardDet, Det(40, 120, 30, 30, 1, 90)>>
    /\ fn_out.kept = <<BoardDet, Det(40, 120, 30, 30, 1, 90), Det(70, 150, 20, 20, 6, 60)>>
    /\ fn_out.placement
         = <<"8", "/", "P", "7", "/", "8", "/", "8", "/", "8", "/", "8", "/", "8", "/", "8">>

\* C34: both suppressions return detections of the input in non-increasing
\* confidence, the first of the sorted input among them, and remove a
\* detection only when a retained detection of no lower confidence has an
\* IoU above the threshold with it.
C34_RemovedOnlyAboveThreshold ==
    fn_op \in {"nms", "detector_nms"}
    => LET In == Elems(fn_in.dets)
           Out == Elems(fn_out)
       IN  /\ Out \subseteq In
           /\ Len(fn_out) <= Len(fn_in.dets)
           /\ fn_in.dets # <<>>
              => fn_out # <<>> /\ fn_out[1] = SortByConf(fn_in.dets)[1]
           /\ \A i \in 1..Len(fn_out) : \A j \in 1..Len(fn_out) :
                  i < j => fn_out[i].confidence >= fn_out[j].confidence
           /\ \A b \in In \ Out : \E a \in Out :
                  a.confidence >= b.confidence /\ IouExceeds(a, b, fn_in.thr)
====
